---------------------------- MODULE Spec2Model ----------------------------
(***************************************************************************)
(* Model of the geometry/format translation core of Archi-Presentation:    *)
(*   templates/template_project/svg2ifc.py  (drawing -> building graph)    *)
(*   stacker/stack_ifc.py                   (multi-floor merge)            *)
(*   stacker/elemente_builder.py, main.py   (3D build from view shapes)    *)
(*   stacker/convert_dxf.py                 (raw DXF reader)               *)
(*                                                                         *)
(* Numbers.  The code computes in binary floating point.  The model        *)
(* computes exactly: lengths of the building are integers counted in       *)
(* decimetres (0.9 m = 9, 1.2 m = 12, 2.1 m = 21), quotients are fractions *)
(* [n, d] with d > 0, and a distance is held as its square (hypot is       *)
(* monotone, so every comparison of two distances is the comparison of     *)
(* their squares).  "No value" (Python None) is the empty sequence <<>>    *)
(* and a present value v is <<v>>.                                         *)
(***************************************************************************)
EXTENDS Integers, Sequences, FiniteSets, TLC

VARIABLES
    \* ---- main() of svg2ifc.py ------------------------------------------
    pc,         \* position of main(): "start", "setup", "clean", "parse", "walls",
                \* "wins", "doors", "write", "export", "done", or "raised" (left by
                \* an exception)
    world,      \* what the run finds: [svg, loaded, spatial, body, store, old_undo]
    storey,     \* main.storey : None, then Some(what pick_storey returned)
    session,    \* [use_global_undo, purged, base, written, file, ops]: the
                \* preference, whether the clean-up has run, the number of products
                \* in the store when the build starts, whether OUT_IFC was written
                \* and with what, the reload/export functions called so far
    walls,      \* main.walls : list of <<poly_w, eid>>
    wins,       \* main.wins
    doors,      \* main.doors
    wall_recs,  \* main.wall_recs : list of [poly, ifc]
    idx,        \* index of the running for-loop (enumerate)
    ifc,        \* the project store: [products, voids, fills, types]
    hosted,     \* what each iteration of build_hosted computed, in order
    log,        \* warnings written through log()
    \* ---- pure functions applied to drawn inputs ------------------------
    eid_in,     \* parse_spec_from_eid: the identifier
    eid_out,    \*                      None while pending, then Some(what it returned)
    sc_in,      \* set_mapped_scale_and_center_ALL_REPS_KEEP_DEPTH: its arguments
    sc_out,     \*                      None, then Some([ret, Representation]) after the call
    unit_in,    \* compute_svg_unit_to_meter: the root element's attributes
    unit_out,   \*                      None, then Some(what it returned)
    gauge,      \* the length unit of the world coordinates: "dm", or "Gm" (1e9 m)
    far_in,     \* the host search of build_hosted: [recs, c]
    far_out,    \*                      None, then Some(the best it ended with)
    tf_in,      \* parse_transform: the primitives name(args) the regex finds, in order
    tf_out,     \*                      None, then Some([raised, M])
    dxf_in,     \* svg_to_dxf from line 1510 on: [polylines, vbh]
    dxf_out,    \*                      None, then Some([ret, written, file])
    raw_in,     \* parse_dxf_raw: [es, ended], the entities of the file and its end
    raw_out,    \*                      None, then Some(lines)
    \* ---- build_elemente_3d of elemente_builder.py ----------------------
    clock,      \* the wall clock, in whole seconds
    jobs,       \* the calls: [via, payload, pc, shapes_data, dir, launched, input, result]
    disk,       \* elemente_projects: per build_<timestamp>, [exists, svgs, glb, log]
    \* ---- merge_ifc_files of stack_ifc.py --------------------------------
    floors,     \* floor_data_list, each floor the elements of its source file
    mpc,        \* position of merge_ifc_files
    fi,         \* index of the floor being processed
    products,   \* the list `products` collected for the current floor
    pi,         \* index into products
    copied_count, \* copied_count of the current floor
    merged,     \* the merged file f: [storeys, elements, contained]
    report,     \* the "Found n" / "Copied n products to floor i" lines
    failures,   \* how many calls into the IFC library have raised so far
    \* ---- _path_to_polylines ---------------------------------------------
    queue,      \* path strings still to be flattened by the caller
    flat,       \* locals of the running call: [toks, i, cmd, x, y, sx, sy, cur, polys]
    ppc,        \* "idle", "run" (in the loop), "tail" (loop left), "raised"
    calls       \* finished calls, in order: [d, polys]

runVars   == <<world, storey, session>>
mainVars  == <<pc, runVars, walls, wins, doors, wall_recs, idx, ifc, hosted, log>>
eidVars   == <<eid_in, eid_out>>
scVars    == <<sc_in, sc_out>>
unitVars  == <<unit_in, unit_out>>
hostVars  == <<gauge, far_in, far_out>>
tfVars    == <<tf_in, tf_out>>
dxfVars   == <<dxf_in, dxf_out>>
rawVars   == <<raw_in, raw_out>>
buildVars == <<clock, jobs, disk>>
pureVars  == <<eidVars, scVars, unitVars, hostVars, tfVars, dxfVars, rawVars, buildVars>>
mergeVars == <<floors, mpc, fi, products, pi, copied_count, merged, report, failures>>
pathVars  == <<queue, flat, ppc, calls>>
vars      == <<mainVars, pureVars, mergeVars, pathVars>>

-----------------------------------------------------------------------------
(* Exact arithmetic *)

None    == <<>>
Some(v) == <<v>>
IsNone(o) == o = <<>>
Val(o)  == o[1]

Abs(a)  == IF a < 0 THEN -a ELSE a
Sgn(a)  == IF a < 0 THEN -1 ELSE IF a > 0 THEN 1 ELSE 0
Max2(a, b) == IF a >= b THEN a ELSE b
Min2(a, b) == IF a <= b THEN a ELSE b

RECURSIVE SeqSum(_)
SeqSum(s) == IF s = <<>> THEN 0 ELSE Head(s) + SeqSum(Tail(s))

RECURSIVE SeqMax(_)
SeqMax(s) == IF Len(s) = 1 THEN s[1] ELSE Max2(s[1], SeqMax(Tail(s)))

RECURSIVE SeqMin(_)
SeqMin(s) == IF Len(s) = 1 THEN s[1] ELSE Min2(s[1], SeqMin(Tail(s)))

RECURSIVE Gcd(_, _)
Gcd(a, b) == IF b = 0 THEN a ELSE Gcd(b, a % b)

\* A fraction n/d in lowest terms, d > 0.  d = 0 with n = 1 stands for a value
\* above every distance the model's integers can hold (the code's 1e9, 1e18).
Rat(n, d) ==
    IF d = 0 THEN [n |-> 1, d |-> 0]
    ELSE LET s == IF d < 0 THEN -1 ELSE 1
             g == Gcd(Abs(n), Abs(d))
         IN  [n |-> s * (n \div g), d |-> s * (d \div g)]
RatInt(k)     == [n |-> k, d |-> 1]
RatInf        == [n |-> 1, d |-> 0]
RatLess(a, b) == a.n * b.d < b.n * a.d
RatEq(a, b)   == a.n = b.n /\ a.d = b.d
RatAdd(a, b)  == Rat(a.n * b.d + b.n * a.d, a.d * b.d)
RatNeg(a)     == [n |-> -a.n, d |-> a.d]
RatSub(a, b)  == RatAdd(a, RatNeg(b))
\* a * b, the common factors cancelled before the products are formed
RatMul(a, b) ==
    LET g1 == Gcd(Abs(a.n), b.d)
        g2 == Gcd(Abs(b.n), a.d)
    IN  Rat((a.n \div g1) * (b.n \div g2), (a.d \div g2) * (b.d \div g1))
RatDiv(a, b)  == RatMul(a, IF b.n < 0 THEN [n |-> -b.d, d |-> -b.n] ELSE [n |-> b.d, d |-> b.n])
RatHalf(a)    == RatMul(a, [n |-> 1, d |-> 2])
RatPos(a)     == a.n > 0

-----------------------------------------------------------------------------
(* svg2ifc.py: SVG parsing *)

\* A length attribute is absent (None) or the text [ok, val, unit]: ok says
\* whether the regular expression of parse_length_mm matches it, val is the
\* number it captures and unit the letters after it, already lower-cased.
\* The result is in millimetres.
parse_length_mm(s) ==
    IF IsNone(s) THEN None
    ELSE LET a == Val(s) IN
         IF ~a.ok THEN None
         ELSE IF a.unit \in {"", "px"} THEN None
         ELSE IF a.unit = "mm" THEN Some(RatInt(a.val))
         ELSE IF a.unit = "cm" THEN Some(RatInt(a.val * 10))
         ELSE IF a.unit = "m"  THEN Some(RatInt(a.val * 1000))
         ELSE IF a.unit = "in" THEN Some(Rat(a.val * 254, 10))
         ELSE IF a.unit = "pt" THEN Some(Rat(a.val * 254, 720))
         ELSE None

\* vb_w > 1e-9 for a fraction vb_w = n/d:  n * 10^9 > d  iff  n > d \div 10^9
VbEpsInv == 1000000000
AboveVbEps(v) == v.n > v.d \div VbEpsInv

\* root = [viewBox, width]: viewBox is None or Some(the list of its numbers).
compute_svg_unit_to_meter(root) ==
    LET vb       == root.viewBox
        vb_w     == IF ~IsNone(vb) /\ Len(Val(vb)) = 4 THEN Some(Val(vb)[3]) ELSE None
        width_mm == parse_length_mm(root.width)
        unit_to_mm ==
            IF ~IsNone(width_mm) /\ ~IsNone(vb_w) /\ AboveVbEps(Val(vb_w))
            THEN RatDiv(Val(width_mm), Val(vb_w))
            ELSE RatInt(1)
    IN  RatMul(unit_to_mm, Rat(1, 10))

classify_fill(rgb) ==
    IF IsNone(rgb) THEN None
    ELSE LET r == Val(rgb)[1]
             g == Val(rgb)[2]
             b == Val(rgb)[3]
         IN  IF r < 50 /\ g < 50 /\ b < 50 THEN Some("wall")
             ELSE IF r > 180 /\ g < 100 /\ b < 100 THEN Some("window")
             ELSE IF Abs(r - g) < 25 /\ Abs(g - b) < 25 /\ 80 < r /\ r < 200 THEN Some("door")
             ELSE None

\* M is the matrix <<a, c, e, b, d, f>> of rows (a c e), (b d f), (0 0 1).
Identity3 == <<1, 0, 0, 0, 1, 0>>
apply_transform(points, M) ==
    [k \in 1..Len(points) |->
        <<M[1] * points[k][1] + M[2] * points[k][2] + M[3],
          M[4] * points[k][1] + M[5] * points[k][2] + M[6]>>]

\* Lines 291-326.  A primitive is [fn, args]; an argument is the text of a
\* number (TfNum) or a text float() does not accept (TfWord).  Matrices are
\* <<a, c, e, b, d, f>> for the rows (a c e), (b d f), (0 0 1).
TfNum(v) == [num |-> TRUE, v |-> v]
TfWord   == [num |-> FALSE, v |-> 0]

\* M @ T of two such matrices
MatMul(A, B) ==
    <<A[1] * B[1] + A[2] * B[4], A[1] * B[2] + A[2] * B[5], A[1] * B[3] + A[2] * B[6] + A[3],
      A[4] * B[1] + A[5] * B[4], A[4] * B[2] + A[5] * B[5], A[4] * B[3] + A[5] * B[6] + A[6]>>

\* fn.lower() (line 298), on the names the inputs use
Lower(fn) ==
    CASE fn = "SCALE" -> "scale"
      [] fn = "Rotate" -> "rotate"
      [] OTHER -> fn

\* math.cos / math.sin of math.radians(deg), for whole quarter turns
CosDeg(deg) == CASE deg % 360 = 0 -> 1 [] deg % 360 = 180 -> -1 [] OTHER -> 0
SinDeg(deg) == CASE deg % 360 = 90 -> 1 [] deg % 360 = 270 -> -1 [] OTHER -> 0

\* Line 300: float(a) of every argument; raises ValueError on the first it rejects
float_raises(args) == \E k \in 1..Len(args) : ~args[k].num
float_vals(args) == [k \in 1..Len(args) |-> args[k].v]

\* Lines 301-322: the matrix T of one primitive, fn already lower-cased
term_matrix(fn, vals) ==
    CASE fn = "translate" ->
            LET tx == IF Len(vals) > 0 THEN vals[1] ELSE 0
                ty == IF Len(vals) > 1 THEN vals[2] ELSE 0
            IN  <<1, 0, tx, 0, 1, ty>>
      [] fn = "scale" ->
            LET sx == IF Len(vals) > 0 THEN vals[1] ELSE 1
                sy == IF Len(vals) > 1 THEN vals[2] ELSE sx
            IN  <<sx, 0, 0, 0, sy, 0>>
      [] fn = "rotate" ->
            LET ang == IF Len(vals) > 0 THEN vals[1] ELSE 0
                cx  == IF Len(vals) > 2 THEN vals[2] ELSE 0
                cy  == IF Len(vals) > 2 THEN vals[3] ELSE 0
                c   == CosDeg(ang)
                si  == SinDeg(ang)
            IN  MatMul(MatMul(<<1, 0, cx, 0, 1, cy>>, <<c, -si, 0, si, c, 0>>),
                       <<1, 0, -cx, 0, 1, -cy>>)
      [] fn = "matrix" ->
            IF Len(vals) >= 6
            THEN <<vals[1], vals[3], vals[5], vals[2], vals[4], vals[6]>>
            ELSE Identity3
      [] OTHER -> Identity3

\* Lines 297-325: the loop over the primitives from k on, M the product so far
RECURSIVE parse_transform_from(_, _, _)
parse_transform_from(prims, k, M) ==
    IF k > Len(prims) THEN [raised |-> FALSE, M |-> M]
    ELSE IF float_raises(prims[k].args) THEN [raised |-> TRUE, M |-> M]
    ELSE parse_transform_from(prims, k + 1,
            MatMul(M, term_matrix(Lower(prims[k].fn), float_vals(prims[k].args))))

parse_transform(prims) == parse_transform_from(prims, 1, Identity3)

\* nums: the numbers of the points attribute, in order.
parse_points_attr(nums) ==
    IF Len(nums) < 6 THEN None
    ELSE LET pts == [k \in 1..(Len(nums) \div 2) |-> <<nums[2 * k - 1], nums[2 * k]>>]
         IN  IF pts[1] # pts[Len(pts)] THEN Some(Append(pts, pts[1])) ELSE Some(pts)

rect_to_poly(x, y, w, h) ==
    << <<x, y>>, <<x + w, y>>, <<x + w, y + h>>, <<x, y + h>>, <<x, y>> >>

\* One node of the drawing, as walk() of iter_floorplan_shapes sees it:
\* [tag, rgb, id, M] and x, y, w, h (a rect) or nums (a polygon, a polyline).
\* The result is None (nothing yielded) or Some(<<cls, poly_t, elem_id>>).
iter_floorplan_shapes(node) ==
    LET cls  == classify_fill(node.rgb)
        poly == IF node.tag = "rect"
                THEN IF node.w > 0 /\ node.h > 0
                     THEN Some(rect_to_poly(node.x, node.y, node.w, node.h))
                     ELSE None
                ELSE IF node.tag \in {"polygon", "polyline"}
                     THEN parse_points_attr(node.nums)
                     ELSE None
    IN  IF ~IsNone(poly) /\ ~IsNone(cls)
        THEN Some(<<Val(cls), apply_transform(Val(poly), node.M), node.id>>)
        ELSE None

-----------------------------------------------------------------------------
(* svg2ifc.py: geometry helpers *)

\* The centroid (sum xs / n, sum ys / n) over pts[:-1].
poly_centroid(pts) ==
    LET n == Len(pts) - 1
    IN  <<Rat(SeqSum([k \in 1..n |-> pts[k][1]]), n),
          Rat(SeqSum([k \in 1..n |-> pts[k][2]]), n)>>

\* Returns [d, t]; d is the SQUARE of the distance the code returns.
dist_point_to_segment(px, py, ax, ay, bx, by) ==
    LET vx == RatInt(bx - ax)
        vy == RatInt(by - ay)
        wx == RatSub(px, RatInt(ax))
        wy == RatSub(py, RatInt(ay))
        vv == RatAdd(RatMul(vx, vx), RatMul(vy, vy))
    IN  IF vv.n = 0      \* vv <= 1e-12
        THEN [d |-> RatAdd(RatMul(wx, wx), RatMul(wy, wy)), t |-> RatInt(0)]
        ELSE LET t0 == RatDiv(RatAdd(RatMul(wx, vx), RatMul(wy, vy)), vv)
                 t  == IF RatLess(t0, RatInt(0)) THEN RatInt(0)
                       ELSE IF RatLess(RatInt(1), t0) THEN RatInt(1) ELSE t0
                 cx == RatAdd(RatInt(ax), RatMul(t, vx))
                 cy == RatAdd(RatInt(ay), RatMul(t, vy))
                 ex == RatSub(px, cx)
                 ey == RatSub(py, cy)
             IN  [d |-> RatAdd(RatMul(ex, ex), RatMul(ey, ey)), t |-> t]

\* The loop of closest_wall_edge with  d <= best[0]  in place of  d < best[0]:
\* among the edges at the least distance the last one is kept.
RECURSIVE closest_wall_edge_keep_last(_, _, _, _, _)
closest_wall_edge_keep_last(wall_poly, px, py, i, best) ==
    IF i >= Len(wall_poly) - 1 THEN best
    ELSE LET a  == wall_poly[i + 1]
             b  == wall_poly[i + 2]
             dt == dist_point_to_segment(px, py, a[1], a[2], b[1], b[2])
         IN  closest_wall_edge_keep_last(wall_poly, px, py, i + 1,
                IF ~RatLess(best.d, dt.d)
                THEN [d |-> dt.d, edge |-> Some(<<a[1], a[2], b[1], b[2]>>), t |-> Some(dt.t)]
                ELSE best)

\* One pass of the loop of closest_wall_edge, from edge i (0-based) on.
RECURSIVE closest_wall_edge_from(_, _, _, _, _)
closest_wall_edge_from(wall_poly, px, py, i, best) ==
    IF i >= Len(wall_poly) - 1 THEN best
    ELSE LET a  == wall_poly[i + 1]
             b  == wall_poly[i + 2]
             dt == dist_point_to_segment(px, py, a[1], a[2], b[1], b[2])
         IN  closest_wall_edge_from(wall_poly, px, py, i + 1,
                IF RatLess(dt.d, best.d)
                THEN [d |-> dt.d, edge |-> Some(<<a[1], a[2], b[1], b[2]>>), t |-> Some(dt.t)]
                ELSE best)

closest_wall_edge(wall_poly, px, py) ==
    closest_wall_edge_from(wall_poly, px, py, 0, [d |-> RatInf, edge |-> None, t |-> None])

\* unit(vx, vy) for the vectors whose length the integers hold exactly: the
\* zero vector and the vectors along an axis.  The walls of the model are
\* rectilinear, so no other vector is ever passed.
unit(vx, vy) ==
    CASE vx = 0 /\ vy = 0 -> <<1, 0>>
      [] vx # 0 /\ vy = 0 -> <<Sgn(vx), 0>>
      [] vx = 0 /\ vy # 0 -> <<0, Sgn(vy)>>

opening_width_from_rect(poly_w, ux, uy) ==
    LET vx == -uy
        vy == ux
        n  == Len(poly_w) - 1
        us == [k \in 1..n |-> poly_w[k][1] * ux + poly_w[k][2] * uy]
        vs == [k \in 1..n |-> poly_w[k][1] * vx + poly_w[k][2] * vy]
    IN  Max2(SeqMax(us) - SeqMin(us), SeqMax(vs) - SeqMin(vs))

-----------------------------------------------------------------------------
(* svg2ifc.py: identifiers and template type tokens *)

\* Defaults (metres in the code, decimetres here)
DEFAULT_WALL_HEIGHT               == 30
DEFAULT_OPENING_DEPTH_ACROSS_WALL == 10
DEFAULT_FALLBACK_SILL             == 9
DEFAULT_FALLBACK_WIN_H            == 12
DEFAULT_FALLBACK_DOOR_H           == 21
DEFAULT_DOOR_TYPE == "single_swing"
DEFAULT_WIN_TYPE  == "single"
GEN_PREFIX        == "SVGGEN_"
TYPE_WALL         == "wall"

\* An identifier is the list of the pieces that eid.strip().split("-") yields
\* ("w1-SINGLE--1.2" is <<"w1", "SINGLE", "", "1.2">>); the empty identifier
\* is <<>>.  TLC's strings have no characters, so what the code asks of a
\* piece is tabulated for the pieces the model uses.

\* head.lower().startswith("w") / ("d")
StartsWithW(t) == t \in {"w1", "w2", "W3"}
StartsWithD(t) == t \in {"d1", "D2"}

\* float(t): the value in decimetres, for the pieces float() accepts
FloatOf(t) ==
    CASE t = "0"    -> Some(0)
      [] t = "0.2"  -> Some(2)
      [] t = "0.9"  -> Some(9)
      [] t = "1.2"  -> Some(12)
      [] t = "1.8"  -> Some(18)
      [] t = "2.1"  -> Some(21)
      [] t = "2.10" -> Some(21)
      [] t = "2.6"  -> Some(26)
      [] OTHER      -> None      \* ValueError

\* the words w with  w in s  for s = raw.strip().lower() of a piece
WordsIn(raw) ==
    CASE raw = "SINGLE"            -> {"single"}
      [] raw = "single"            -> {"single"}
      [] raw = "SINGLE_SWING"      -> {"single", "swing"}
      [] raw = "DOUBLE_SWING"      -> {"double", "swing"}
      [] raw = "DOUBLE_SLIDE"      -> {"double", "slide"}
      [] raw = "TRIPLE_HORIZONTAL" -> {"triple", "horizontal"}
      [] raw = "Double Vertical"   -> {"double", "vertical"}
      [] OTHER                     -> {}

\* The loops over WIN_TYPE_KEYS and DOOR_TYPE_KEYS (lines 479-480, 488-489)
\* find a key only in a token that holds the key's words, and every such token
\* has returned before the loop is reached: they never return.
normalize_type_token(kind, raw) ==
    LET s == WordsIn(raw) IN
    IF kind = "WINDOW" THEN
        IF "triple" \in s /\ "horizontal" \in s THEN "triple_horizontal"
        ELSE IF "triple" \in s /\ "vertical" \in s THEN "triple_vertical"
        ELSE IF "double" \in s /\ "horizontal" \in s THEN "double_horizontal"
        ELSE IF "double" \in s /\ "vertical" \in s THEN "double_vertical"
        ELSE IF "single" \in s THEN "single"
        ELSE DEFAULT_WIN_TYPE
    ELSE
        IF "double" \in s /\ "swing" \in s THEN "double_swing"
        ELSE IF "double" \in s /\ "slide" \in s THEN "double_slide"
        ELSE IF "single" \in s /\ "swing" \in s THEN "single_swing"
        ELSE IF "single" \in s /\ "slide" \in s THEN "single_slide"
        ELSE DEFAULT_DOOR_TYPE

\* nums with  continue  in place of  break : a token float() rejects is
\* skipped and the tokens after it are still read.
RECURSIVE nums_of_skipping(_)
nums_of_skipping(toks) ==
    IF toks = <<>> THEN <<>>
    ELSE IF IsNone(FloatOf(Head(toks))) THEN nums_of_skipping(Tail(toks))
    ELSE <<Val(FloatOf(Head(toks)))>> \o nums_of_skipping(Tail(toks))

\* nums of parse_spec_from_eid: the floats of toks, up to the first ValueError
RECURSIVE nums_of(_)
nums_of(toks) ==
    IF toks = <<>> THEN <<>>
    ELSE IF IsNone(FloatOf(Head(toks))) THEN <<>>
    ELSE <<Val(FloatOf(Head(toks)))>> \o nums_of(Tail(toks))

NoSpec == [kind |-> None, type_token |-> None, width |-> None, sill |-> None, height |-> None]

parse_spec_from_eid(eid) ==
    LET toks == SelectSeq(eid, LAMBDA t : t # "") IN
    IF Len(toks) < 2 THEN NoSpec
    ELSE IF ~StartsWithW(toks[1]) /\ ~StartsWithD(toks[1]) THEN NoSpec
    ELSE LET kind == IF StartsWithW(toks[1]) THEN "WINDOW" ELSE "DOOR"
             nums == nums_of(SubSeq(toks, 3, Len(toks)))
         IN  IF kind = "WINDOW"
             THEN [kind       |-> Some(kind),
                   type_token |-> Some(normalize_type_token(kind, toks[2])),
                   width      |-> IF Len(nums) >= 1 THEN Some(nums[1]) ELSE None,
                   sill       |-> Some(IF Len(nums) >= 2 THEN nums[2] ELSE DEFAULT_FALLBACK_SILL),
                   height     |-> Some(IF Len(nums) >= 3 THEN nums[3] ELSE DEFAULT_FALLBACK_WIN_H)]
             ELSE [kind       |-> Some(kind),
                   type_token |-> Some(normalize_type_token(kind, toks[2])),
                   width      |-> IF Len(nums) >= 1 THEN Some(nums[1]) ELSE None,
                   sill       |-> Some(0),
                   height     |-> Some(IF Len(nums) >= 2 THEN nums[2] ELSE DEFAULT_FALLBACK_DOOR_H)]

-----------------------------------------------------------------------------
(* svg2ifc.py: mapped-item scaling *)

\* A product is [Representation, bbox].  Representation is None or
\* Some(list of representations), each the list of its items
\* [mapped, MappingTarget]; bbox is what bbox_local(product) gives:
\* Some([mn, mx]) or None when it raises.  Coordinates of the box are whole
\* numbers of half micrometres, so that an extent of 1 lies strictly between
\* 0 and the code's 1e-6.
ExtentEps == 2

Is2DOperator(mt) ==
    /\ ~IsNone(mt)
    /\ Val(mt).type \in {"IfcCartesianTransformationOperator2D",
                         "IfcCartesianTransformationOperator2DnonUniform"}

make_3d_op(ox, oy, sx, sy, sz) ==
    [type |-> "IfcCartesianTransformationOperator3DnonUniform",
     LocalOrigin |-> <<ox, oy, RatInt(0)>>,
     Scale |-> sx, Scale2 |-> sy, Scale3 |-> Some(sz)]

make_2d_op(ox, oy, sx, sy) ==
    [type |-> "IfcCartesianTransformationOperator2DnonUniform",
     LocalOrigin |-> <<ox, oy>>,
     Scale |-> sx, Scale2 |-> sy, Scale3 |-> None]

\* The test of line 581 without its middle term: the depth is not looked at.
degenerate_extent_xz(dx, dy, dz) == dx < ExtentEps \/ dz < ExtentEps

\* The offset of line 590 without the scale factor.
recenter_offset_unscaled(s, c) == RatNeg(c)

\* Lines 580-582: the extents and the test that skips the scaling.
degenerate_extent(dx, dy, dz) == dx < ExtentEps \/ dy < ExtentEps \/ dz < ExtentEps

\* Lines 588-591: the offset that recentres the scaled box.
recenter_offset(s, c) == RatNeg(RatMul(s, c))

\* Returns [ret, Representation]: ret is None or Some([sx, sy, sz, touched]).
set_mapped_scale_and_center_ALL_REPS_KEEP_DEPTH(product, target_width, target_height) ==
    IF IsNone(product.Representation) THEN [ret |-> None, Representation |-> product.Representation]
    ELSE IF IsNone(product.bbox) THEN [ret |-> None, Representation |-> product.Representation]
    ELSE
    LET mn == Val(product.bbox).mn
        mx == Val(product.bbox).mx
        dx == mx[1] - mn[1]
        dy == mx[2] - mn[2]
        dz == mx[3] - mn[3]
    IN  IF degenerate_extent(dx, dy, dz)
        THEN [ret |-> None, Representation |-> product.Representation]
        ELSE
        LET sx == Rat(target_width, dx)
            sy == RatInt(1)
            sz == Rat(target_height, dz)
            cx == Rat(mn[1] + mx[1], 2)
            cy == Rat(mn[2] + mx[2], 2)
            ox == recenter_offset(sx, cx)
            oy == recenter_offset(sy, cy)
            reps == Val(product.Representation)
            scaled(it) ==
                IF ~it.mapped THEN it
                ELSE IF Is2DOperator(it.MappingTarget)
                     THEN [it EXCEPT !.MappingTarget = Some(make_2d_op(ox, oy, sx, sy))]
                     ELSE [it EXCEPT !.MappingTarget = Some(make_3d_op(ox, oy, sx, sy, sz))]
            touched == SeqSum([r \in 1..Len(reps) |->
                          Len(SelectSeq(reps[r], LAMBDA it : it.mapped))])
        IN  [ret |-> Some([sx |-> sx, sy |-> sy, sz |-> sz, touched |-> touched]),
             Representation |->
                Some([r \in 1..Len(reps) |-> [k \in 1..Len(reps[r]) |-> scaled(reps[r][k])]])]

-----------------------------------------------------------------------------
(* svg2ifc.py: the project store and template types *)

\* _norm(s): lower case, everything but a-z0-9 removed, for the names used.
Norm(s) ==
    CASE s \in {"single", "Single", "SINGLE"}                        -> "single"
      [] s \in {"single_swing", "SINGLE_SWING", "Single Swing"}      -> "singleswing"
      [] s \in {"double_swing", "Double-Swing"}                      -> "doubleswing"
      [] s \in {"double_slide"}                                      -> "doubleslide"
      [] s \in {"single_slide"}                                      -> "singleslide"
      [] s \in {"triple_horizontal", "Triple Horizontal"}            -> "triplehorizontal"
      [] s \in {"triple_vertical"}                                   -> "triplevertical"
      [] s \in {"double_horizontal"}                                 -> "doublehorizontal"
      [] s \in {"double_vertical", "Double_Vertical"}                -> "doublevertical"
      [] s \in {"wall", "Wall"}                                      -> "wall"
      [] OTHER                                                       -> ""

\* The lookup comparing the names as they are written.
find_type_exact(types, cls, name) ==
    LET hits == SelectSeq(types, LAMBDA t : t.cls = cls /\ t.Name = name)
    IN  IF hits = <<>> THEN None ELSE Some(hits[1])

\* types: ifc.by_type(cls), in file order; the result is None or Some(type).
find_type_ci(types, cls, name) ==
    LET target == Norm(name)
        hits   == SelectSeq(types, LAMBDA t : t.cls = cls /\ Norm(t.Name) = target)
    IN  IF target = "" THEN None
        ELSE IF hits = <<>> THEN None ELSE Some(hits[1])

\* Lines 1843-1860: [ttype, created]; created says that the type had to be
\* synthesized (root.create_entity), with no representation to map.
resolve_template_type(types, is_win, type_token) ==
    LET cls   == IF is_win THEN "IfcWindowType" ELSE "IfcDoorType"
        dflt  == IF is_win THEN DEFAULT_WIN_TYPE ELSE DEFAULT_DOOR_TYPE
        first == find_type_ci(types, cls, type_token)
        second == IF IsNone(first) THEN find_type_ci(types, cls, dflt) ELSE first
    IN  IF IsNone(second)
        THEN [ttype |-> [cls |-> cls, Name |-> type_token, Representation |-> None, bbox |-> None],
              created |-> TRUE, fallback |-> TRUE]
        ELSE [ttype |-> Val(second), created |-> FALSE, fallback |-> IsNone(first)]

-----------------------------------------------------------------------------
(* svg2ifc.py: main(), lines 1729-1933 *)

\* The root element of plan.svg: no width declared, so one drawing unit is
\* 0.1 m, one decimetre.
PlanRoot == [viewBox |-> Some(<<RatInt(0), RatInt(0), RatInt(40), RatInt(40)>>), width |-> None]
unit_m   == compute_svg_unit_to_meter(PlanRoot)
\* p * unit_m metres, in decimetres
ToWorld(p) == RatMul(RatInt(p), RatMul(unit_m, RatInt(10))).n

\* Line 1765: the flip of Y into IFC coordinates
poly_to_world(poly) == [k \in 1..Len(poly) |-> <<ToWorld(poly[k][1]), -ToWorld(poly[k][2])>>]

\* Lines 1822-1827: the search for the host over wall_recs, from record k on.
RECURSIVE host_wall_from(_, _, _, _, _)
host_wall_from(recs, cx, cy, k, best) ==
    IF k > Len(recs) THEN best
    ELSE LET r == closest_wall_edge(recs[k].poly, cx, cy)
         IN  host_wall_from(recs, cx, cy, k + 1,
                IF RatLess(r.d, best.d)
                THEN [d |-> r.d, host |-> Some(k), edge |-> r.edge]
                ELSE best)

\* Line 1823: the 1e9 (metres) the search starts from, as a squared distance.
\* Counted in decimetres it is 1e20, above every distance the integers of a
\* drawing in decimetres hold: RatInf.  Counted in units of 1e9 m it is 1.
HostCapSq == IF gauge = "Gm" THEN RatInt(1) ELSE RatInf

host_wall(recs, cx, cy) ==
    host_wall_from(recs, cx, cy, 1, [d |-> HostCapSq, host |-> None, edge |-> None])

\* The spec of the identifier taken as it is written
hosted_spec_as_written(eid, is_win) ==
    LET sp == parse_spec_from_eid(eid) IN
    IF IsNone(sp.type_token)
    THEN [sp EXCEPT !.type_token = Some(IF is_win THEN DEFAULT_WIN_TYPE ELSE DEFAULT_DOOR_TYPE)]
    ELSE sp

\* Lines 1812-1820: the spec of the identifier, the fields of the other kind
\* replaced by this kind's defaults.
hosted_spec(eid, is_win) ==
    LET sp == parse_spec_from_eid(eid) IN
    IF is_win /\ sp.kind # Some("WINDOW")
    THEN [sp EXCEPT !.type_token = Some(DEFAULT_WIN_TYPE),
                    !.sill = Some(DEFAULT_FALLBACK_SILL),
                    !.height = Some(DEFAULT_FALLBACK_WIN_H)]
    ELSE IF ~is_win /\ sp.kind # Some("DOOR")
    THEN [sp EXCEPT !.type_token = Some(DEFAULT_DOOR_TYPE),
                    !.sill = Some(0),
                    !.height = Some(DEFAULT_FALLBACK_DOOR_H)]
    ELSE sp

\* Line 1837
opening_width(spec_width, poly, ux, uy) ==
    IF ~IsNone(spec_width) THEN Val(spec_width) ELSE opening_width_from_rect(poly, ux, uy)

-----------------------------------------------------------------------------
(* Inputs of main(): the nodes of plan.svg and the template library *)

MaxWalls    == 2      \* walls in one drawing
MaxStuck    == 1      \* products whose removal raises in one run
MaxOpenings == 1      \* windows and doors in one drawing

Black == Some(<<0, 0, 0>>)
Red   == Some(<<255, 0, 0>>)
Gray  == Some(<<128, 128, 128>>)
White == Some(<<255, 255, 255>>)

RectNode(rgb, id, x, y, w, h) ==
    [tag |-> "rect", rgb |-> rgb, id |-> id, M |-> Identity3,
     x |-> x, y |-> y, w |-> w, h |-> h, nums |-> <<>>]
PolyNode(rgb, id, nums) ==
    [tag |-> "polygon", rgb |-> rgb, id |-> id, M |-> Identity3,
     x |-> 0, y |-> 0, w |-> 0, h |-> 0, nums |-> nums]

\* Walls: two rectangles sharing the edge x = 4, a square whose points
\* attribute repeats its first vertex, a rectangle of no width and a
\* two-point polygon (neither yields a shape).  A points attribute has an even
\* number of numbers (an odd one raises IndexError at line 340).
WallNodes ==
    { RectNode(Black, <<>>, 0, 0, 4, 2),
      RectNode(Black, <<>>, 4, 0, 4, 2),
      PolyNode(Black, <<>>, <<0, 0, 0, 0, 4, 0, 4, 4, 0, 4>>),
      RectNode(Black, <<>>, 0, 0, 0, 2),
      PolyNode(Black, <<>>, <<0, 0, 4, 0>>) }

\* Openings: red is a window, gray a door.  The square at (3, -1) is centred
\* on the corner (4, 0) the two rectangles share, the squares at (3, 0) on
\* their shared edge, the one at (-2, -2) lies off the corner (0, 0), and the
\* last polygon repeats one point three times.
OpeningNodes ==
    { RectNode(Red,  <<"w1", "SINGLE", "1.2", "0.9", "1.2">>, 3, -1, 2, 2),
      RectNode(Red,  <<"w2", "TRIPLE_HORIZONTAL", "0", "0.9", "1.2">>, 3, 0, 2, 2),
      RectNode(Red,  <<"w1", "SINGLE", "1.2", "0.9", "0">>, 6, 0, 2, 2),
      RectNode(Red,  <<"w2", "Double Vertical">>, -2, -2, 2, 2),
      RectNode(Red,  <<>>, 3, 0, 2, 2),
      RectNode(Red,  <<"d1", "DOUBLE_SWING", "1.8", "2.10">>, 6, 0, 2, 2),
      PolyNode(Red,  <<>>, <<0, 3, 1, 3, 1, 4>>),
      PolyNode(Red,  <<>>, <<1, 1, 1, 1, 1, 1>>),
      RectNode(Gray, <<"d1", "DOUBLE_SWING", "1.8", "2.10">>, 3, 0, 2, 2),
      RectNode(Gray, <<"d1", "SINGLE_SWING", "0.9", "abc", "2.1">>, -2, -2, 2, 2),
      RectNode(Gray, <<>>, 6, 0, 2, 2),
      RectNode(Gray, <<"w1", "SINGLE", "1.2", "0.9", "1.2">>, 3, 0, 2, 2) }

OtherNodes == { RectNode(White, <<>>, 0, 0, 4, 2) }

PlanNodes == WallNodes \cup OpeningNodes \cup OtherNodes

\* What an instance mapped from a template type shows to the scaler.
Op3D == Some([type |-> "IfcCartesianTransformationOperator3D"])
Op2D == Some([type |-> "IfcCartesianTransformationOperator2D"])
MappedItem(mt) == [mapped |-> TRUE, MappingTarget |-> mt]
PlainItem      == [mapped |-> FALSE, MappingTarget |-> None]

TemplateLibrary ==
    << [cls |-> "IfcWallType", Name |-> "Wall", Representation |-> None, bbox |-> None],
       [cls |-> "IfcWindowType", Name |-> "Single",
        Representation |-> Some(<< <<MappedItem(Op3D)>>, <<MappedItem(Op2D), PlainItem>> >>),
        bbox |-> Some([mn |-> <<-2, 0, 0>>, mx |-> <<4, 2, 6>>])],
       [cls |-> "IfcWindowType", Name |-> "Triple Horizontal",
        Representation |-> Some(<< <<MappedItem(None)>> >>),
        bbox |-> Some([mn |-> <<0, 0, 2>>, mx |-> <<6, 2, 6>>])],
       [cls |-> "IfcDoorType", Name |-> "Double-Swing",
        Representation |-> Some(<< <<MappedItem(Op3D)>> >>),
        bbox |-> Some([mn |-> <<0, 0, 0>>, mx |-> <<4, 1, 8>>])] >>

IdleEid   == eid_in = <<>> /\ eid_out = <<>>
IdleScale == sc_in = <<>> /\ sc_out = <<>>
IdleUnit  == unit_in = <<>> /\ unit_out = <<>>
IdleHost  == gauge = "dm" /\ far_in = <<>> /\ far_out = <<>>
IdleTf    == tf_in = <<>> /\ tf_out = <<>>
IdleDxf   == dxf_in = <<>> /\ dxf_out = <<>>
IdleRaw   == raw_in = <<>> /\ raw_out = <<>>
IdleBuild == clock = 0 /\ jobs = <<>> /\ disk = <<>>
IdlePure  == IdleEid /\ IdleScale /\ IdleUnit /\ IdleHost /\ IdleTf /\ IdleDxf /\ IdleRaw
             /\ IdleBuild
IdleMerge ==
    /\ floors = <<>> /\ mpc = "idle" /\ fi = 0 /\ products = <<>> /\ pi = 0
    /\ copied_count = 0 /\ merged = <<>> /\ report = <<>> /\ failures = 0
IdlePath ==
    /\ queue = <<>> /\ flat = <<>> /\ ppc = "off" /\ calls = <<>>
IdleMain ==
    /\ world = <<>> /\ storey = <<>> /\ session = <<>>
    /\ pc = "idle" /\ walls = <<>> /\ wins = <<>> /\ doors = <<>> /\ wall_recs = <<>>
    /\ idx = 0 /\ ifc = <<>> /\ hosted = <<>> /\ log = <<>>

\* The drawing at SVG_PATH: none, plan.svg with every node above, or a small
\* plan of one wall, one window and one door.
SmallPlan ==
    { RectNode(Black, <<>>, 0, 0, 4, 2),
      RectNode(Red,  <<"w1", "SINGLE", "1.2", "0.9", "1.2">>, 3, 0, 2, 2),
      RectNode(Gray, <<"d1", "DOUBLE_SWING", "1.8", "2.10">>, 3, 0, 2, 2) }
Drawing(svg) ==
    CASE svg = "plan"  -> PlanNodes
      [] svg = "small" -> SmallPlan
      [] OTHER         -> {}

\* The store Bonsai holds when main() starts: empty of products, or with what
\* an earlier run generated (a wall, its opening and the window in it, a
\* standard-case wall) next to hand-authored elements, one of which is a slab
\* whose name starts with the marker.
EmptyStore == [products |-> <<>>, voids |-> {}, fills |-> {}, types |-> TemplateLibrary]
PriorStore ==
    [products |->
       << [cls |-> "IfcWall", Name |-> <<GEN_PREFIX, "WALL", 0>>, container |-> "storey"],
          [cls |-> "IfcOpeningElement", Name |-> <<GEN_PREFIX, "OP", "WIN", 0>>, container |-> "storey"],
          [cls |-> "IfcWindow", Name |-> <<GEN_PREFIX, "WIN", 0, <<"w1">> >>, container |-> "storey"],
          [cls |-> "IfcWall", Name |-> <<"Garden wall">>, container |-> "storey"],
          [cls |-> "IfcWallStandardCase", Name |-> <<GEN_PREFIX, "WALL", 1>>, container |-> "storey"],
          [cls |-> "IfcSlab", Name |-> <<GEN_PREFIX, "SLAB">>, container |-> "storey"],
          [cls |-> "IfcDoor", Name |-> <<>>, container |-> "storey"] >>,
     voids |-> {<<2, 1>>},
     fills |-> {<<2, 3>>},
     types |-> TemplateLibrary]

\* The spatial elements of the store: by_type of IfcBuildingStorey,
\* IfcBuilding and IfcSite, each in file order.
Spatials ==
    { [storeys |-> <<>>, buildings |-> <<>>, sites |-> <<>>],
      [storeys |-> <<>>, buildings |-> <<>>, sites |-> <<"Site">>],
      [storeys |-> <<>>, buildings |-> <<"Building">>, sites |-> <<"Site">>],
      [storeys |-> <<"Ground", "Upper">>, buildings |-> <<"Building">>, sites |-> <<"Site">>] }

Worlds ==
    { [svg |-> "plan", loaded |-> TRUE,
       spatial |-> [storeys |-> <<"Ground", "Upper">>, buildings |-> <<"Building">>,
                    sites |-> <<"Site">>],
       body |-> TRUE, store |-> EmptyStore, old_undo |-> TRUE] }
    \cup [svg : {"missing", "small"}, loaded : BOOLEAN, spatial : Spatials, body : BOOLEAN,
          store : {EmptyStore, PriorStore}, old_undo : BOOLEAN]

InitMain ==
    /\ world \in Worlds
    /\ pc = "start"
    /\ storey = None
    /\ session = [use_global_undo |-> world.old_undo, purged |-> FALSE, base |-> 0,
                  written |-> FALSE,
                  file |-> None, ops |-> <<>>]
    /\ walls = <<>> /\ wins = <<>> /\ doors = <<>>
    /\ wall_recs = <<>>
    /\ idx = 0
    /\ ifc = world.store
    /\ hosted = <<>>
    /\ log = <<>>
    /\ IdlePure /\ IdleMerge /\ IdlePath

-----------------------------------------------------------------------------
(* Actions of main() *)

\* A run that leaves the preference as the run set it
finally_skipped(s) == s

\* Lines 1932-1933: the finally clause puts the undo preference back
finally_undo(s) == [s EXCEPT !.use_global_undo = world.old_undo]

\* Lines 1730-1741: no drawing at SVG_PATH raises before the undo preference
\* is touched; otherwise it is switched off for the run.
Start ==
    /\ pc = "start"
    /\ IF world.svg = "missing"
       THEN pc' = "raised" /\ UNCHANGED session
       ELSE pc' = "setup" /\ session' = [session EXCEPT !.use_global_undo = FALSE]
    /\ UNCHANGED <<walls, wins, doors, wall_recs, idx, ifc, hosted, log, world, storey,
                   pureVars, mergeVars, pathVars>>

\* pick_storey that makes up a site where the store has none
pick_storey_or_default(spatial) ==
    IF spatial.storeys # <<>> THEN Some(<<"IfcBuildingStorey", spatial.storeys[1]>>)
    ELSE IF spatial.buildings # <<>> THEN Some(<<"IfcBuilding", spatial.buildings[1]>>)
    ELSE IF spatial.sites # <<>> THEN Some(<<"IfcSite", spatial.sites[1]>>)
    ELSE Some(<<"IfcSite", "Default">>)

\* Lines 203-210: the first storey, else the first building, else the first
\* site, else None for the RuntimeError.
pick_storey(spatial) ==
    IF spatial.storeys # <<>> THEN Some(<<"IfcBuildingStorey", spatial.storeys[1]>>)
    ELSE IF spatial.buildings # <<>> THEN Some(<<"IfcBuilding", spatial.buildings[1]>>)
    ELSE IF spatial.sites # <<>> THEN Some(<<"IfcSite", spatial.sites[1]>>)
    ELSE None

\* Lines 1743-1747 and 1932-1933: get_ifc, pick_storey and body_context each
\* raise RuntimeError when they find nothing; the finally clause puts the undo
\* preference back and the exception leaves main.
Setup ==
    /\ pc = "setup"
    /\ IF ~world.loaded
       THEN pc' = "raised" /\ UNCHANGED storey
       ELSE IF IsNone(pick_storey(world.spatial))
       THEN pc' = "raised" /\ UNCHANGED storey
       ELSE /\ storey' = pick_storey(world.spatial)
            /\ pc' = IF world.body THEN "clean" ELSE "raised"
    /\ session' = IF pc' = "raised" THEN finally_undo(session) ELSE session
    /\ UNCHANGED <<walls, wins, doors, wall_recs, idx, ifc, hosted, log, world,
                   pureVars, mergeVars, pathVars>>

\* Line 225: the name starts with GEN_PREFIX (a name is a sequence of pieces)
is_generated(p) == p.Name # <<>> /\ p.Name[1] = GEN_PREFIX

\* Line 222: the classes whose by_type lists are walked
purged_classes == {"IfcWall", "IfcWallStandardCase", "IfcDoor", "IfcWindow", "IfcOpeningElement"}

\* Lines 220-233.  stuck: the products for which root.remove_product and then
\* ifc.remove raised (lines 226-232 pass over both).  Every other product of
\* the five classes whose name starts with the marker leaves the store and
\* the relations it is part of; the products keep their order, and the
\* relations are renumbered.
remove_previous_generated(store, stuck) ==
    LET gone == { n \in 1..Len(store.products) :
                     /\ store.products[n].cls \in purged_classes
                     /\ is_generated(store.products[n])
                     /\ n \notin stuck }
        kept == { n \in 1..Len(store.products) : n \notin gone }
        new(n) == Cardinality({ m \in kept : m <= n })
    IN  [store EXCEPT
           !.products = [k \in 1..Cardinality(kept) |->
                           store.products[CHOOSE n \in kept : new(n) = k]],
           !.voids = { <<new(v[1]), new(v[2])>> : v \in { x \in @ : x[1] \in kept /\ x[2] \in kept } },
           !.fills = { <<new(v[1]), new(v[2])>> : v \in { x \in @ : x[1] \in kept /\ x[2] \in kept } }]

\* Lines 1749-1756: the purge, then the wall type looked up or created.
Cleanup ==
    /\ pc = "clean"
    /\ \E stuck \in SUBSET { n \in 1..Len(ifc.products) :
                                ifc.products[n].cls \in purged_classes /\ is_generated(ifc.products[n]) } :
          /\ Cardinality(stuck) <= MaxStuck
          /\ LET cleaned == remove_previous_generated(ifc, stuck)
                 attempts == Cardinality({ n \in 1..Len(ifc.products) :
                                 ifc.products[n].cls \in purged_classes /\ is_generated(ifc.products[n]) })
                             + Cardinality({ n \in stuck : ifc.products[n].cls = "IfcWallStandardCase" })
             IN  /\ ifc' = IF IsNone(find_type_ci(cleaned.types, "IfcWallType", TYPE_WALL))
                           THEN [cleaned EXCEPT !.types =
                                   Append(@, [cls |-> "IfcWallType", Name |-> TYPE_WALL,
                                              Representation |-> None, bbox |-> None])]
                           ELSE cleaned
                 /\ log' = Append(log, <<"[CLEAN] Removed", attempts>>)
                 /\ session' = [session EXCEPT !.purged = TRUE, !.base = Len(cleaned.products)]
    /\ pc' = "parse"
    /\ UNCHANGED <<walls, wins, doors, wall_recs, idx, hosted, world, storey,
                   pureVars, mergeVars, pathVars>>

\* Lines 1764-1768: one shape of the drawing, as iter_floorplan_shapes yields
\* it (a node that yields nothing changes nothing).
ParseShape(node) ==
    /\ pc = "parse"
    /\ LET y == iter_floorplan_shapes(node) IN
       IF IsNone(y) THEN UNCHANGED <<walls, wins, doors>>
       ELSE LET cls    == Val(y)[1]
                poly_w == poly_to_world(Val(y)[2])
                eid    == Val(y)[3]
            IN  /\ cls = "wall" => Len(walls) < MaxWalls
                /\ cls # "wall" => Len(wins) + Len(doors) < MaxOpenings
                /\ walls' = IF cls = "wall" THEN Append(walls, <<poly_w, eid>>) ELSE walls
                /\ wins'  = IF cls = "window" THEN Append(wins, <<poly_w, eid>>) ELSE wins
                /\ doors' = IF cls = "door" THEN Append(doors, <<poly_w, eid>>) ELSE doors
    /\ UNCHANGED <<pc, wall_recs, idx, ifc, hosted, log, runVars, pureVars, mergeVars, pathVars>>

\* The drawing is exhausted: line 1770.
EndParse ==
    /\ pc = "parse"
    /\ pc' = "walls"
    /\ idx' = 0
    /\ UNCHANGED <<walls, wins, doors, wall_recs, ifc, hosted, log, runVars, pureVars, mergeVars, pathVars>>

\* Lines 1774-1788: one iteration of the wall loop.
BuildWall ==
    /\ pc = "walls"
    /\ idx < Len(walls)
    /\ LET poly == walls[idx + 1][1]
           c    == poly_centroid(poly)
           w    == [cls |-> "IfcWall", Name |-> <<GEN_PREFIX, "WALL", idx>>,
                    container |-> "storey", type |-> Some("wall"),
                    rep |-> [height |-> DEFAULT_WALL_HEIGHT],
                    placement |-> <<c[1], c[2], RatInt(0)>>]
       IN  /\ ifc' = [ifc EXCEPT !.products = Append(@, w)]
           /\ wall_recs' = Append(wall_recs, [poly |-> poly, ifc |-> Len(ifc.products) + 1])
    /\ idx' = idx + 1
    /\ UNCHANGED <<pc, walls, wins, doors, hosted, log, runVars, pureVars, mergeVars, pathVars>>

EndWalls ==
    /\ pc = "walls"
    /\ idx = Len(walls)
    /\ pc' = "wins"
    /\ idx' = 0
    /\ UNCHANGED <<walls, wins, doors, wall_recs, ifc, hosted, log, runVars, pureVars, mergeVars, pathVars>>

\* Line 1876, feature.add_feature: the opening `feature` voids `element`.
\* Line 1887, feature.add_filling: `element` fills `opening`.  The store holds
\* the two relations as sets of pairs of product indices.
add_feature(voids, feature, element) == voids \cup {<<feature, element>>}

add_filling_skipped(fills, opening, element) == fills

add_filling(fills, opening, element) == fills \cup {<<opening, element>>}

\* Lines 1809-1895: one iteration of the loop of build_hosted(items, is_win).
\* The width handed to the scaler is in decimetres and the box of the template
\* in half micrometres: the factor between the two units is one positive
\* constant, which changes neither the sign of a scale nor the place of the
\* scaled centre.
build_hosted(items, is_win) ==
    LET prefix == IF is_win THEN "WIN" ELSE "DOOR"
        \* lines 1864-1895: the void, the filling element and its scaling
        Built(poly, eid, c, sp, best, u, width, sill, height, tt, sc) ==
            /\ ifc' = [ifc EXCEPT
                 !.products = @ \o
                    << [cls |-> "IfcOpeningElement", Name |-> <<GEN_PREFIX, "OP", prefix, idx>>,
                        container |-> "storey",
                        rep |-> [width |-> width, depth |-> DEFAULT_OPENING_DEPTH_ACROSS_WALL,
                                 height |-> height],
                        placement |-> [x |-> c[1], y |-> c[2], z |-> sill, ux |-> u[1], uy |-> u[2]]],
                       [cls |-> IF is_win THEN "IfcWindow" ELSE "IfcDoor",
                        Name |-> <<GEN_PREFIX, prefix, idx, eid>>,
                        container |-> "storey",
                        type |-> tt.ttype.Name,
                        Representation |-> sc.Representation,
                        placement |-> [x |-> c[1], y |-> c[2], z |-> sill, ux |-> u[1], uy |-> u[2]]] >>,
                 !.voids    = add_feature(@, Len(ifc.products) + 1, wall_recs[Val(best.host)].ifc),
                 !.fills    = add_filling(@, Len(ifc.products) + 1, Len(ifc.products) + 2),
                 !.types    = IF tt.created THEN Append(@, tt.ttype) ELSE @]
            /\ log' = log
                 \o (IF tt.fallback THEN << <<"[TYPE] Missing", Val(sp.type_token)>> >> ELSE <<>>)
                 \o (IF tt.created THEN << <<"[TYPE] Created missing", Val(sp.type_token)>> >> ELSE <<>>)
            /\ hosted' = Append(hosted,
                 [is_win |-> is_win, i |-> idx, eid |-> eid, poly |-> poly, c |-> c,
                  host |-> best.host, edge |-> best.edge, d |-> best.d,
                  spec_width |-> sp.width, width |-> width, sill |-> sill, height |-> height,
                  type_token |-> Val(sp.type_token), types |-> ifc.types,
                  op |-> Len(ifc.products) + 1, el |-> Len(ifc.products) + 2,
                  bbox |-> tt.ttype.bbox, before |-> tt.ttype.Representation,
                  after |-> sc.Representation, sc |-> sc.ret])
        \* lines 1837-1860 and 1890: width, sill, height, template type, scaling
        Sized(poly, eid, c, sp, best, u, width, sill, height, tt) ==
            Built(poly, eid, c, sp, best, u, width, sill, height, tt,
                  set_mapped_scale_and_center_ALL_REPS_KEEP_DEPTH(
                      [Representation |-> tt.ttype.Representation, bbox |-> tt.ttype.bbox],
                      width, height))
        Framed(poly, eid, c, sp, best, u) ==
            Sized(poly, eid, c, sp, best, u,
                  opening_width(sp.width, poly, u[1], u[2]),
                  IF IsNone(sp.sill) THEN (IF is_win THEN DEFAULT_FALLBACK_SILL ELSE 0)
                  ELSE Val(sp.sill),
                  IF IsNone(sp.height)
                  THEN (IF is_win THEN DEFAULT_FALLBACK_WIN_H ELSE DEFAULT_FALLBACK_DOOR_H)
                  ELSE Val(sp.height),
                  resolve_template_type(ifc.types, is_win, Val(sp.type_token)))
        \* lines 1829-1835: no host, or the tangent of the host edge
        Hosted(poly, eid, c, sp, best) ==
            IF IsNone(best.host)
            THEN /\ log' = Append(log, <<"[BUILD] WARNING: No host wall found for", prefix, idx>>)
                 /\ hosted' = Append(hosted,
                      [is_win |-> is_win, i |-> idx, eid |-> eid, poly |-> poly, c |-> c,
                       host |-> None, edge |-> None, d |-> best.d])
                 /\ UNCHANGED ifc
            ELSE Framed(poly, eid, c, sp, best,
                        unit(Val(best.edge)[3] - Val(best.edge)[1],
                             Val(best.edge)[4] - Val(best.edge)[2]))
        \* lines 1810-1827: centroid, spec of the identifier, host search
        Item(poly, eid, c) ==
            Hosted(poly, eid, c, hosted_spec(eid, is_win), host_wall(wall_recs, c[1], c[2]))
    IN  /\ idx < Len(items)
        /\ Item(items[idx + 1][1], items[idx + 1][2], poly_centroid(items[idx + 1][1]))
        /\ idx' = idx + 1
        /\ UNCHANGED <<pc, walls, wins, doors, wall_recs, runVars, pureVars, mergeVars, pathVars>>

\* Line 1897
BuildWindow ==
    /\ pc = "wins"
    /\ build_hosted(wins, TRUE)

EndWindows ==
    /\ pc = "wins"
    /\ idx = Len(wins)
    /\ pc' = "doors"
    /\ idx' = 0
    /\ UNCHANGED <<walls, wins, doors, wall_recs, ifc, hosted, log, runVars, pureVars, mergeVars, pathVars>>

\* Line 1898
BuildDoor ==
    /\ pc = "doors"
    /\ build_hosted(doors, FALSE)

\* Line 1898: the loop of build_hosted(doors, False) ends
EndDoors ==
    /\ pc = "doors"
    /\ idx = Len(doors)
    /\ pc' = "write"
    /\ UNCHANGED <<walls, wins, doors, wall_recs, idx, ifc, hosted, log, runVars,
                   pureVars, mergeVars, pathVars>>

\* A write whose failure is passed over
after_write_swallowed(ok) == "export"

\* Lines 1900-1903: where main goes on after os.makedirs and ifc.write, which
\* returned (ok) or raised OSError
after_write(ok) == IF ok THEN "export" ELSE "raised"

\* Lines 1900-1903: the store is written to OUT_IFC.
WriteIfc ==
    /\ pc = "write"
    /\ \E ok \in BOOLEAN :
          /\ pc' = after_write(ok)
          /\ session' = IF ok THEN [session EXCEPT !.written = TRUE, !.file = Some(ifc)]
                        ELSE finally_undo(session)
    /\ UNCHANGED <<walls, wins, doors, wall_recs, idx, ifc, hosted, log, world, storey,
                   pureVars, mergeVars, pathVars>>

\* Lines 1906-1928: the functions main calls after the write, in this order
EPILOGUE ==
    << "reload_ifc_in_bonsai", "center_cameras_on_geometry_and_update",
       "bonsai_try_load_create_lists", "bonsai_add_selected_drawing_to_sheet",
       "bonsai_export_discover_and_run", "collect_and_flatten_exports",
       "convert_exports_to_dxf_and_pdf" >>

\* Lines 829 and 914: os.makedirs outside any try; the other functions catch
\* what their operators raise.
RAISING == {"bonsai_export_discover_and_run", "collect_and_flatten_exports"}

\* Lines 1906-1928: the next function of the epilogue is called; it returns,
\* or it raises and the finally clause ends the run.
CallNext ==
    /\ pc = "export"
    /\ Len(session.ops) < Len(EPILOGUE)
    /\ LET fn == EPILOGUE[Len(session.ops) + 1] IN
       \E ok \in (IF fn \in RAISING THEN BOOLEAN ELSE {TRUE}) :
          /\ pc' = IF ok THEN "export" ELSE "raised"
          /\ session' = IF ok THEN [session EXCEPT !.ops = Append(@, fn)]
                        ELSE finally_undo([session EXCEPT !.ops = Append(@, fn)])
    /\ UNCHANGED <<walls, wins, doors, wall_recs, idx, ifc, hosted, log, world, storey,
                   pureVars, mergeVars, pathVars>>

\* Lines 1930-1933: "=== DONE ===" and the finally clause
Finish ==
    /\ pc = "export"
    /\ Len(session.ops) = Len(EPILOGUE)
    /\ pc' = "done"
    /\ session' = finally_undo(session)
    /\ UNCHANGED <<walls, wins, doors, wall_recs, idx, ifc, hosted, log, world, storey,
                   pureVars, mergeVars, pathVars>>

NextMain ==
    \/ Start
    \/ Setup
    \/ Cleanup
    \/ \E node \in Drawing(world.svg) : ParseShape(node)
    \/ EndParse
    \/ BuildWall
    \/ EndWalls
    \/ BuildWindow
    \/ EndWindows
    \/ BuildDoor
    \/ EndDoors
    \/ WriteIfc
    \/ CallNext
    \/ Finish

SpecMain == InitMain /\ [][NextMain]_vars

-----------------------------------------------------------------------------
(* parse_spec_from_eid applied to drawn identifiers *)

MaxEidNums == 3       \* pieces after the type token

EidHeads  == {"w2", "d1", "x9"}
EidTypes  == {"TRIPLE_HORIZONTAL", "DOUBLE_SWING"}
EidPieces == {"1.8", "0.2", "abc", ""}
EidInputs ==
    {<<>>, <<"w1">>}
    \cup { <<h, ty>> \o rest :
              h \in EidHeads, ty \in EidTypes,
              rest \in UNION {[1..k -> EidPieces] : k \in 0..MaxEidNums} }

InitEid ==
    /\ eid_in \in EidInputs
    /\ eid_out = None
    /\ IdleScale /\ IdleUnit /\ IdleHost /\ IdleTf /\ IdleDxf
    /\ IdleRaw /\ IdleBuild /\ IdleMain /\ IdleMerge /\ IdlePath

ParseEid ==
    /\ IsNone(eid_out)
    /\ eid_out' = Some(parse_spec_from_eid(eid_in))
    /\ UNCHANGED <<eid_in, scVars, unitVars, hostVars, tfVars, dxfVars, rawVars, buildVars, mainVars, mergeVars, pathVars>>

NextEid == ParseEid

SpecEid == InitEid /\ [][NextEid]_vars

-----------------------------------------------------------------------------
(* set_mapped_scale_and_center_ALL_REPS_KEEP_DEPTH applied to drawn instances *)

ScaleReps ==
    { None,
      Some(<<>>),
      Some(<< <<PlainItem>> >>),
      Some(<< <<MappedItem(Op3D)>>, <<MappedItem(Op2D), PlainItem>> >>),
      Some(<< <<MappedItem(None), MappedItem(Op2D)>> >>) }
ScaleCorners == { <<-2, 0, 0>>, <<0, 0, 2>>, <<-4, -2, -6>> }
ScaleExtents == {0, 1, 2, 6}
ScaleBoxes ==
    { None }
    \cup { Some([mn |-> mn, mx |-> <<mn[1] + dx, mn[2] + dy, mn[3] + dz>>]) :
              mn \in ScaleCorners, dx \in ScaleExtents, dy \in {1, 2}, dz \in ScaleExtents }
ScaleTargets == {0, 6, 12}

InitScale ==
    /\ sc_in \in [product : [Representation : ScaleReps, bbox : ScaleBoxes],
                  target_width : ScaleTargets, target_height : ScaleTargets]
    /\ sc_out = None
    /\ IdleEid /\ IdleUnit /\ IdleHost /\ IdleTf /\ IdleDxf
    /\ IdleRaw /\ IdleBuild /\ IdleMain /\ IdleMerge /\ IdlePath

ApplyScale ==
    /\ IsNone(sc_out)
    /\ sc_out' = Some(set_mapped_scale_and_center_ALL_REPS_KEEP_DEPTH(
                        sc_in.product, sc_in.target_width, sc_in.target_height))
    /\ UNCHANGED <<sc_in, eidVars, unitVars, hostVars, tfVars, dxfVars, rawVars, buildVars, mainVars, mergeVars, pathVars>>

NextScale == ApplyScale

SpecScale == InitScale /\ [][NextScale]_vars

-----------------------------------------------------------------------------
(* compute_svg_unit_to_meter applied to drawn root elements *)

\* Widths of the viewBox: ordinary ones, 1e-3, exactly 1e-9, 0 and a negative one
ViewBoxWidths ==
    { RatInt(100), RatInt(40), Rat(1, 2), Rat(1, 1000), Rat(1, VbEpsInv), RatInt(0), RatInt(-5) }
ViewBoxes ==
    { None }
    \cup { Some(<<RatInt(0), RatInt(0), v, v>>) : v \in ViewBoxWidths }
    \cup { Some(<<RatInt(0), RatInt(0), RatInt(100)>>) }
WidthUnits == {"", "px", "mm", "cm", "m", "in", "pt", "pc", "%"}
WidthAttrs ==
    { None, Some([ok |-> FALSE, val |-> 0, unit |-> ""]) }
    \cup { Some([ok |-> TRUE, val |-> v, unit |-> u]) : v \in {1, 2, 210}, u \in WidthUnits }

InitUnit ==
    /\ unit_in \in [viewBox : ViewBoxes, width : WidthAttrs]
    /\ unit_out = None
    /\ IdleEid /\ IdleScale /\ IdleHost /\ IdleTf /\ IdleDxf
    /\ IdleRaw /\ IdleBuild /\ IdleMain /\ IdleMerge /\ IdlePath

ComputeUnit ==
    /\ IsNone(unit_out)
    /\ unit_out' = Some(compute_svg_unit_to_meter(unit_in))
    /\ UNCHANGED <<unit_in, eidVars, scVars, hostVars, tfVars, dxfVars, rawVars, buildVars, mainVars, mergeVars, pathVars>>

NextUnit == ComputeUnit

SpecUnit == InitUnit /\ [][NextUnit]_vars

-----------------------------------------------------------------------------
(* The host search of build_hosted (lines 1822-1832) applied to drawn walls  *)
(* and centroids, the coordinates counted in units of 1e9 m                  *)

MaxFarWalls == 2
FarPolys ==
    { << <<0, 0>>, <<4, 0>>, <<4, 2>>, <<0, 2>>, <<0, 0>> >>,
      << <<4, 0>>, <<8, 0>>, <<8, 2>>, <<4, 2>>, <<4, 0>> >>,
      << <<0, 0>>, <<0, 0>>, <<4, 0>>, <<4, 4>>, <<0, 4>>, <<0, 0>> >> }
FarRecs ==
    UNION { [1..k -> [poly : FarPolys, ifc : {0}]] : k \in 0..MaxFarWalls }
FarCentroids ==
    { <<Rat(x, 2), Rat(y, 2)>> : x \in {-4, 0, 4, 8, 9, 10, 12, 20}, y \in {-4, -2, 0, 2} }

InitHost ==
    /\ gauge = "Gm"
    /\ far_in \in [recs : FarRecs, c : FarCentroids]
    /\ far_out = None
    /\ IdleEid /\ IdleScale /\ IdleUnit /\ IdleTf /\ IdleDxf
    /\ IdleRaw /\ IdleBuild /\ IdleMain /\ IdleMerge /\ IdlePath

HostSearch ==
    /\ IsNone(far_out)
    /\ far_out' = Some(host_wall(far_in.recs, far_in.c[1], far_in.c[2]))
    /\ UNCHANGED <<gauge, far_in, eidVars, scVars, unitVars, tfVars, dxfVars, rawVars, buildVars, mainVars, mergeVars, pathVars>>

NextHost == HostSearch

SpecHost == InitHost /\ [][NextHost]_vars

-----------------------------------------------------------------------------
(* parse_transform applied to drawn transform strings *)

MaxChain == 2
TfPrimitives ==
    { [fn |-> "translate", args |-> <<TfNum(3), TfNum(-1)>>],
      [fn |-> "translate", args |-> <<TfNum(5)>>],
      [fn |-> "translate", args |-> <<>>],
      [fn |-> "translate", args |-> <<TfWord, TfNum(2)>>],
      [fn |-> "scale", args |-> <<TfNum(2)>>],
      [fn |-> "SCALE", args |-> <<TfNum(-1), TfNum(3)>>],
      [fn |-> "rotate", args |-> <<TfNum(90)>>],
      [fn |-> "Rotate", args |-> <<TfNum(180), TfNum(1), TfNum(2)>>],
      [fn |-> "rotate", args |-> <<TfNum(270), TfWord, TfNum(2)>>],
      [fn |-> "matrix", args |-> <<TfNum(0), TfNum(1), TfNum(-1), TfNum(0), TfNum(4), TfNum(0)>>],
      [fn |-> "matrix", args |-> <<TfNum(1), TfNum(2), TfNum(3)>>],
      [fn |-> "skewx", args |-> <<TfNum(30)>>],
      [fn |-> "foo", args |-> <<TfWord>>] }
TfChains == UNION { [1..k -> TfPrimitives] : k \in 0..MaxChain }

InitTf ==
    /\ tf_in \in TfChains
    /\ tf_out = None
    /\ IdleEid /\ IdleScale /\ IdleUnit /\ IdleHost /\ IdleDxf
    /\ IdleRaw /\ IdleBuild /\ IdleMain /\ IdleMerge /\ IdlePath

ParseTransform ==
    /\ IsNone(tf_out)
    /\ tf_out' = Some(parse_transform(tf_in))
    /\ UNCHANGED <<tf_in, eidVars, scVars, unitVars, hostVars, dxfVars, rawVars, buildVars, mainVars, mergeVars, pathVars>>

NextTf == ParseTransform

SpecTf == InitTf /\ [][NextTf]_vars

-----------------------------------------------------------------------------
(* svg_to_dxf, lines 1510-1556: the polylines collected from the drawing are  *)
(* written as a DXF file.  Coordinates are integers counted in units of       *)
(* 5e-10, so that the 1e-9 of lines 1530 and 1537 is 2.                       *)

DxfEps == 2

\* One group of the file, as w(code, val) writes it (line 1517): the value is
\* a text or a number.
GroupText(code, val) == [code |-> code, text |-> val, num |-> 0]
GroupNum(code, val)  == [code |-> code, text |-> "", num |-> val]

\* Lines 1528-1531 without the comparison with the last vertex kept
dxf_uncleaned(pts2, k, cleaned) == pts2

\* Lines 1528-1531: from the k-th vertex on, `cleaned` the vertices kept so far
RECURSIVE dxf_cleaned(_, _, _)
dxf_cleaned(pts2, k, cleaned) ==
    IF k > Len(pts2) THEN cleaned
    ELSE LET p    == pts2[k]
             last == cleaned[Len(cleaned)]
         IN  dxf_cleaned(pts2, k + 1,
                IF cleaned = <<>> \/ Abs(last[1] - p[1]) > DxfEps \/ Abs(last[2] - p[2]) > DxfEps
                THEN Append(cleaned, p)
                ELSE cleaned)

\* Lines 1535-1538
dxf_closed(cleaned) ==
    IF /\ Len(cleaned) >= 3
       /\ Abs(cleaned[1][1] - cleaned[Len(cleaned)][1]) < DxfEps
       /\ Abs(cleaned[1][2] - cleaned[Len(cleaned)][2]) < DxfEps
    THEN 1 ELSE 0

\* Lines 1544-1546
RECURSIVE dxf_vertices(_, _)
dxf_vertices(cleaned, k) ==
    IF k > Len(cleaned) THEN <<>>
    ELSE <<GroupNum(10, cleaned[k][1]), GroupNum(20, cleaned[k][2])>> \o dxf_vertices(cleaned, k + 1)

\* Lines 1526-1546: what one polyline adds to the file
dxf_entity(pts, vbh) ==
    LET pts2    == [k \in 1..Len(pts) |-> <<pts[k][1], vbh - pts[k][2]>>]
        cleaned == dxf_cleaned(pts2, 1, <<>>)
    IN  IF Len(cleaned) < 2 THEN <<>>
        ELSE <<GroupText(0, "LWPOLYLINE"), GroupText(8, "0"),
               GroupNum(90, Len(cleaned)), GroupNum(70, dxf_closed(cleaned))>>
             \o dxf_vertices(cleaned, 1)

RECURSIVE dxf_entities(_, _, _)
dxf_entities(polylines, vbh, k) ==
    IF k > Len(polylines) THEN <<>>
    ELSE dxf_entity(polylines[k], vbh) \o dxf_entities(polylines, vbh, k + 1)

\* Lines 1510-1556: [ret, written, file]
svg_to_dxf(polylines, vbh) ==
    LET kept == SelectSeq(polylines, LAMBDA pl : Len(pl) >= 2)
    IN  IF kept = <<>>
        THEN [ret |-> FALSE, written |-> FALSE, file |-> <<>>]
        ELSE [ret |-> TRUE, written |-> TRUE,
              file |-> <<GroupText(0, "SECTION"), GroupText(2, "HEADER"),
                         GroupText(9, "$ACADVER"), GroupText(1, "AC1015"),
                         GroupText(0, "ENDSEC"),
                         GroupText(0, "SECTION"), GroupText(2, "ENTITIES")>>
                       \o dxf_entities(kept, vbh, 1)
                       \o <<GroupText(0, "ENDSEC"), GroupText(0, "EOF")>>]

MaxPolylines == 2
DxfPolylines ==
    { << <<0, 0>>, <<10, 0>>, <<10, 10>>, <<0, 0>> >>,
      << <<0, 0>>, <<10, 0>> >>,
      << <<0, 0>>, <<1, 1>>, <<10, 0>> >>,
      << <<0, 0>>, <<2, 0>>, <<10, 0>> >>,
      << <<0, 0>>, <<3, 0>>, <<0, 10>>, <<1, 0>> >>,
      << <<0, 0>>, <<10, 0>>, <<0, 10>>, <<2, 0>> >>,
      << <<5, 5>>, <<5, 5>>, <<5, 5>> >>,
      << <<0, 0>>, <<10, 0>>, <<0, 0>> >>,
      << <<4, 4>> >>,
      << >> }

InitDxf ==
    /\ dxf_in \in [polylines : UNION { [1..n -> DxfPolylines] : n \in 0..MaxPolylines },
                   vbh : {100, 1000}]
    /\ dxf_out = None
    /\ IdleEid /\ IdleScale /\ IdleUnit /\ IdleHost /\ IdleTf
    /\ IdleRaw /\ IdleBuild /\ IdleMain /\ IdleMerge /\ IdlePath

WriteDxf ==
    /\ IsNone(dxf_out)
    /\ dxf_out' = Some(svg_to_dxf(dxf_in.polylines, dxf_in.vbh))
    /\ UNCHANGED <<dxf_in, eidVars, scVars, unitVars, hostVars, tfVars, rawVars, buildVars, mainVars, mergeVars, pathVars>>

NextDxf == WriteDxf

SpecDxf == InitDxf /\ [][NextDxf]_vars

-----------------------------------------------------------------------------
(* elemente_builder.py: build_elemente_3d, and main.py: elemente_build, the  *)
(* HTTP entry point that calls it.  Two calls run side by side.              *)

MaxTicks == 1         \* seconds that pass on the clock while the calls run

\* The calls that run side by side
Jobs == {"a", "b"}

\* Line 299 of elemente_builder.py, lines 177-183 of main.py
VIEWS == <<"front", "right", "left", "back", "top">>
ViewSet == { VIEWS[k] : k \in 1..Len(VIEWS) }

\* A shape of a request (ElementeShape): its viewId and shapeType
ElementeShape(viewId, shapeType) == [viewId |-> viewId, shapeType |-> shapeType]
\* A shape of shapes_data: a dict with the key 'shapeType' (Some) or without
ShapeDict(shapeType) == [shapeType |-> shapeType]

\* shape.viewId.lower() (main.py line 186) for the viewIds drawn
view_lower(v) ==
    CASE v = "Front" -> "front"
      [] v = "TOP"   -> "top"
      [] OTHER       -> v

\* shape.get('shapeType', default)
get_shapeType(shape, default) ==
    IF IsNone(shape.shapeType) THEN default ELSE Val(shape.shapeType)

\* main.py lines 176-197: the shapes of the request grouped by view, those of
\* an unknown view left out
RECURSIVE shapes_of_view(_, _)
shapes_of_view(shapes, v) ==
    IF shapes = <<>> THEN <<>>
    ELSE (IF view_lower(Head(shapes).viewId) = v
          THEN <<ShapeDict(Some(Head(shapes).shapeType))>> ELSE <<>>)
         \o shapes_of_view(Tail(shapes), v)
group_by_view(shapes) == [v \in ViewSet |-> shapes_of_view(shapes, v)]

\* main.py line 205
views_with_shapes(shapes_by_view) == { v \in ViewSet : Len(shapes_by_view[v]) > 0 }

\* elemente_builder.py lines 275-288: on_count, over every key of shapes_data
on_in(shapes) == Cardinality({ k \in 1..Len(shapes) : get_shapeType(shapes[k], "on") = "on" })
RECURSIVE on_count_over(_, _)
on_count_over(shapes_data, keys) ==
    IF keys = {} THEN 0
    ELSE LET v == CHOOSE w \in keys : TRUE
         IN  on_in(shapes_data[v]) + on_count_over(shapes_data, keys \ {v})
on_count(shapes_data) == on_count_over(shapes_data, DOMAIN shapes_data)

\* shapes_data.get(view, [])
get_view(shapes_data, view) ==
    IF view \in DOMAIN shapes_data THEN shapes_data[view] ELSE <<>>

\* The views that hold a shape of any type
views_with_any(shapes_data) ==
    Cardinality({ v \in ViewSet : Len(get_view(shapes_data, v)) > 0 })

\* Lines 298-310: views_with_on after the loop over the five views
views_with_on(shapes_data) ==
    Cardinality({ v \in ViewSet :
                    \E k \in 1..Len(get_view(shapes_data, v)) :
                        get_view(shapes_data, v)[k].shapeType = Some("on") })

\* Lines 263-267: projects_dir / f"build_{timestamp}", the timestamp
\* time.strftime("%Y%m%d_%H%M%S"), a whole second
project_dir(job, timestamp) == timestamp

\* The result dict
Failure(error) == [success |-> FALSE, error |-> error, glb_data |-> <<>>]
Success(glb)   == [success |-> TRUE, error |-> "", glb_data |-> glb]

\* The requests posted to /api/elemente-build
HttpRequests ==
    { << ElementeShape("front", "on"), ElementeShape("left", "on") >>,
      << ElementeShape("Front", "on"), ElementeShape("left", "off") >>,
      << ElementeShape("front", "on"), ElementeShape("front", "off") >>,
      << ElementeShape("front", "off"), ElementeShape("TOP", "cut") >>,
      << ElementeShape("front", "on"), ElementeShape("iso", "on") >>,
      << ElementeShape("front", "on"), ElementeShape("back", "on"),
         ElementeShape("TOP", "hole") >> }
\* The shapes_data of direct calls of build_elemente_3d
DirectData ==
    { [v \in {"front", "left"} |-> <<ShapeDict(Some("on")), ShapeDict(Some("off"))>>],
      [v \in {"front", "right"} |-> IF v = "front" THEN <<ShapeDict(Some("on"))>>
                                    ELSE <<ShapeDict(None)>>],
      [v \in {"front", "iso"} |-> <<ShapeDict(Some("on"))>>],
      [v \in {"top"} |-> <<ShapeDict(Some("on")), ShapeDict(Some("on"))>>] }

Job(via, payload) ==
    [via |-> via, payload |-> payload,
     pc |-> IF via = "http" THEN "http" ELSE "call",
     shapes_data |-> IF via = "http" THEN None ELSE Some(payload),
     dir |-> None, launched |-> FALSE, input |-> None, result |-> None]
JobInputs ==
    { Job("http", r) : r \in HttpRequests } \cup { Job("direct", d) : d \in DirectData }

NoDir == [exists |-> FALSE, svgs |-> None, glb |-> None, log |-> None]

InitBuild ==
    /\ clock = 0
    /\ jobs \in [Jobs -> JobInputs]
    /\ disk = [t \in 0..MaxTicks |-> NoDir]
    /\ IdleRaw /\ IdleEid /\ IdleScale /\ IdleUnit /\ IdleHost /\ IdleTf /\ IdleDxf
    /\ IdleMain /\ IdleMerge /\ IdlePath

\* main.py lines 169-212: the shapes are grouped, and a request with shapes
\* on fewer than two views is answered without calling the builder.
Endpoint(j) ==
    /\ jobs[j].pc = "http"
    /\ LET shapes_by_view == group_by_view(jobs[j].payload) IN
       jobs' = [jobs EXCEPT ![j] =
                  IF Cardinality(views_with_shapes(shapes_by_view)) < 2
                  THEN [@ EXCEPT !.pc = "done",
                                 !.result = Some(Failure("Need shapes on at least 2 views"))]
                  ELSE [@ EXCEPT !.pc = "call", !.shapes_data = Some(shapes_by_view)]]
    /\ UNCHANGED <<clock, disk>>

\* elemente_builder.py lines 224-269: Blender, the add-on and the runner are
\* looked for; then the project directory of this second is made, mkdir with
\* exist_ok=True.
Enter(j) ==
    /\ jobs[j].pc = "call"
    /\ \E found \in BOOLEAN :
          IF ~found
          THEN /\ jobs' = [jobs EXCEPT ![j].pc = "done",
                                       ![j].result = Some(Failure("not found"))]
               /\ UNCHANGED disk
          ELSE /\ jobs' = [jobs EXCEPT ![j].pc = "count",
                                       ![j].dir = Some(project_dir(j, clock))]
               /\ disk' = [disk EXCEPT ![project_dir(j, clock)].exists = TRUE]
    /\ UNCHANGED clock

\* Lines 271-317: the shapes are counted, the five view SVGs are written into
\* the project directory, and the views with 'on' shapes are counted.
WriteViews(j) ==
    /\ jobs[j].pc = "count"
    /\ LET shapes_data == Val(jobs[j].shapes_data)
           dir == Val(jobs[j].dir)
       IN  IF on_count(shapes_data) = 0
           THEN /\ jobs' = [jobs EXCEPT ![j].pc = "done",
                                        ![j].result = Some(Failure("No 'on' shapes found"))]
                /\ UNCHANGED disk
           ELSE /\ disk' = [disk EXCEPT ![dir].svgs = Some(j)]
                /\ jobs' = [jobs EXCEPT ![j] =
                              IF views_with_on(shapes_data) < 2
                              THEN [@ EXCEPT !.pc = "done",
                                             !.result = Some(Failure("Need 'on' shapes in at least 2 views"))]
                              ELSE [@ EXCEPT !.pc = "launch"]]
    /\ UNCHANGED clock

\* Lines 319-343: subprocess.run starts Blender on the SVGs that are in the
\* project directory.
Launch(j) ==
    /\ jobs[j].pc = "launch"
    /\ jobs' = [jobs EXCEPT ![j].pc = "blender", ![j].launched = TRUE,
                            ![j].input = disk[Val(jobs[j].dir)].svgs]
    /\ UNCHANGED <<clock, disk>>

\* Lines 336-343, 378-383: Blender ends having written output.glb or not, or
\* is stopped after 120 s.
BlenderExit(j) ==
    /\ jobs[j].pc = "blender"
    /\ \E out \in {"glb", "none", "timeout"} :
          /\ disk' = IF out = "glb"
                     THEN [disk EXCEPT ![Val(jobs[j].dir)].glb =
                              Some([by |-> j, from |-> jobs[j].input])]
                     ELSE disk
          /\ jobs' = IF out = "timeout"
                     THEN [jobs EXCEPT ![j].pc = "done",
                                       ![j].result = Some(Failure("Blender process timed out"))]
                     ELSE [jobs EXCEPT ![j].pc = "collect"]
    /\ UNCHANGED clock

\* Lines 345-376: the log is written and output.glb, if the directory has a
\* non-empty one, is read and returned.
Collect(j) ==
    /\ jobs[j].pc = "collect"
    /\ LET dir == Val(jobs[j].dir) IN
       /\ disk' = [disk EXCEPT ![dir].log = Some(j)]
       /\ jobs' = [jobs EXCEPT ![j].pc = "done",
                               ![j].result =
                                  IF ~IsNone(disk[dir].glb)
                                  THEN Some(Success(disk[dir].glb))
                                  ELSE Some(Failure("No output file created"))]
    /\ UNCHANGED clock

\* A second passes
Tick ==
    /\ clock < MaxTicks
    /\ clock' = clock + 1
    /\ UNCHANGED <<jobs, disk>>

NextBuild ==
    /\ \/ \E j \in Jobs : Endpoint(j)
       \/ \E j \in Jobs : Enter(j)
       \/ \E j \in Jobs : WriteViews(j)
       \/ \E j \in Jobs : Launch(j)
       \/ \E j \in Jobs : BlenderExit(j)
       \/ \E j \in Jobs : Collect(j)
       \/ Tick
    /\ UNCHANGED <<mainVars, eidVars, scVars, unitVars, hostVars, tfVars, dxfVars, rawVars,
                   mergeVars, pathVars>>

SpecBuild == InitBuild /\ [][NextBuild]_vars

-----------------------------------------------------------------------------
(* convert_dxf.py: parse_dxf_raw, from the group code/value pairs of lines   *)
(* 22-34 on.  Coordinates and radii are integers, angles whole degrees.      *)

MaxEntities == 2      \* entities in the ENTITIES section

\* A pair (code, value): the value as text, and what float(value) gives
Word(code, text) == [code |-> code, value |-> text, float |-> 0]
Real(code, n)    == [code |-> code, value |-> "", float |-> n]

\* A segment of `lines`.  One of a LINE or LWPOLYLINE is its two end points;
\* one of a CIRCLE or ARC, whose end points are cosines and sines, is
\* <<cx, cy, r, sa, ea>> (degrees, ea already above sa), <<k, segs>>.
Segment(kind, a, b) == [kind |-> kind, a |-> a, b |-> b]

\* entity_data.get(code, 0)
data_get(entity_data, code) ==
    IF code \in DOMAIN entity_data THEN entity_data[code].float ELSE 0

\* The locals of the loop of line 42
RawLocals ==
    [in_entities |-> FALSE, current_entity |-> "", entity_data |-> <<>>,
     last_x |-> None, polyline_points |-> <<>>, lines |-> <<>>]

\* Lines 58-59 and 131-132
line_segments(entity_data) ==
    << Segment("LINE", <<data_get(entity_data, 10), data_get(entity_data, 20)>>,
                       <<data_get(entity_data, 11), data_get(entity_data, 21)>>) >>

\* Lines 66-71 and 136-140
lwpolyline_segments(entity_data, polyline_points) ==
    LET is_closed == data_get(entity_data, 70) % 2 = 1
        n == Len(polyline_points)
    IN  [j \in 1..(n - 1) |-> Segment("LWPOLYLINE", polyline_points[j], polyline_points[j + 1])]
        \o (IF is_closed /\ n > 2
            THEN <<Segment("LWPOLYLINE", polyline_points[n], polyline_points[1])>>
            ELSE <<>>)

\* Lines 75-84
circle_segments(entity_data) ==
    [k \in 1..32 |->
        Segment("CIRCLE", <<data_get(entity_data, 10), data_get(entity_data, 20),
                            data_get(entity_data, 40), 0, 360>>, <<k - 1, 32>>)]

\* Lines 90-104: pi/16 is 45/4 degrees
arc_segments(entity_data) ==
    LET sa == data_get(entity_data, 50)
        e0 == data_get(entity_data, 51)
        ea == IF e0 < sa THEN e0 + 360 ELSE e0
        segs == Max2(8, (4 * (ea - sa)) \div 45)
    IN  [k \in 1..segs |->
            Segment("ARC", <<data_get(entity_data, 10), data_get(entity_data, 20),
                             data_get(entity_data, 40), sa, ea>>, <<k - 1, segs>>)]

\* Lines 55-106: what the entity collected so far adds to `lines` when the
\* next entity starts
process_previous(f) ==
    CASE f.current_entity = "LINE" /\ f.entity_data # <<>> -> line_segments(f.entity_data)
      [] f.current_entity = "LWPOLYLINE" /\ f.polyline_points # <<>> ->
            lwpolyline_segments(f.entity_data, f.polyline_points)
      [] f.current_entity = "CIRCLE" /\ f.entity_data # <<>> -> circle_segments(f.entity_data)
      [] f.current_entity = "ARC" /\ f.entity_data # <<>> -> arc_segments(f.entity_data)
      [] OTHER -> <<>>

\* Lines 128-140: what the entity left when the loop ends adds to `lines`
process_last(f) ==
    CASE f.current_entity = "LINE" /\ f.entity_data # <<>> -> line_segments(f.entity_data)
      [] f.current_entity = "LWPOLYLINE" /\ f.polyline_points # <<>> ->
            lwpolyline_segments(f.entity_data, f.polyline_points)
      [] OTHER -> <<>>

\* Lines 42-126: one pair
raw_pair(f, p) ==
    IF p.code = 2 /\ p.value = "ENTITIES" THEN [f EXCEPT !.in_entities = TRUE]
    ELSE IF p.code = 0 /\ p.value = "ENDSEC" THEN [f EXCEPT !.in_entities = FALSE]
    ELSE IF ~f.in_entities THEN f
    ELSE IF p.code = 0
    THEN [f EXCEPT !.lines = @ \o process_previous(f),
                   !.current_entity = p.value,
                   !.entity_data = <<>>, !.last_x = None, !.polyline_points = <<>>]
    ELSE IF f.current_entity = "LWPOLYLINE"
    THEN CASE p.code = 10 -> [f EXCEPT !.last_x = Some(p.float)]
           [] p.code = 20 ->
                 IF IsNone(f.last_x) THEN f
                 ELSE [f EXCEPT !.polyline_points = Append(@, <<Val(f.last_x), p.float>>),
                                !.last_x = None]
           [] p.code = 70 -> [f EXCEPT !.entity_data = (70 :> p) @@ @]
           [] OTHER -> f
    ELSE [f EXCEPT !.entity_data = (p.code :> p) @@ @]

RECURSIVE raw_loop(_, _)
raw_loop(f, pairs) ==
    IF pairs = <<>> THEN f ELSE raw_loop(raw_pair(f, Head(pairs)), Tail(pairs))

\* Lines 36-146
parse_dxf_raw(pairs) ==
    LET f == raw_loop(RawLocals, pairs)
    IN  f.lines \o process_last(f)

\* The entities drawn, as the pairs a DXF writer gives them
LineEntity(x1, y1, x2, y2) ==
    << Word(0, "LINE"), Word(8, "0"), Real(10, x1), Real(20, y1), Real(11, x2), Real(21, y2) >>
RECURSIVE VertexPairs(_)
VertexPairs(pts) ==
    IF pts = <<>> THEN <<>>
    ELSE << Real(10, Head(pts)[1]), Real(20, Head(pts)[2]) >> \o VertexPairs(Tail(pts))
LwPolylineEntity(pts, flag) ==
    << Word(0, "LWPOLYLINE"), Word(8, "0"), Real(90, Len(pts)), Real(70, flag) >> \o VertexPairs(pts)
CircleEntity(cx, cy, r) ==
    << Word(0, "CIRCLE"), Word(8, "0"), Real(10, cx), Real(20, cy), Real(40, r) >>
ArcEntity(cx, cy, r, sa, ea) ==
    << Word(0, "ARC"), Word(8, "0"), Real(10, cx), Real(20, cy), Real(40, r),
       Real(50, sa), Real(51, ea) >>

RawEntities ==
    { LineEntity(0, 0, 4, 0),
      LwPolylineEntity(<< <<0, 0>>, <<4, 0>>, <<4, 4>> >>, 0),
      LwPolylineEntity(<< <<0, 0>>, <<4, 0>>, <<4, 4>> >>, 1),
      LwPolylineEntity(<< <<1, 1>>, <<2, 2>> >>, 1),
      CircleEntity(2, 2, 1),
      ArcEntity(0, 0, 2, 0, 100),
      ArcEntity(0, 0, 2, 300, 200) }

\* A file: a header section, the ENTITIES section with the entities es, and
\* its end, ENDSEC and EOF, or nothing where the file was cut off
RECURSIVE Flatten(_)
Flatten(es) == IF es = <<>> THEN <<>> ELSE Head(es) \o Flatten(Tail(es))
RawFile(es, ended) ==
    << Word(0, "SECTION"), Word(2, "HEADER"), Word(9, "$ACADVER"), Word(1, "AC1009"),
       Word(0, "ENDSEC"), Word(0, "SECTION"), Word(2, "ENTITIES") >>
    \o Flatten(es)
    \o (IF ended THEN << Word(0, "ENDSEC"), Word(0, "EOF") >> ELSE <<>>)

InitRaw ==
    /\ raw_in \in [es : UNION { [1..n -> RawEntities] : n \in 0..MaxEntities },
                   ended : BOOLEAN]
    /\ raw_out = None
    /\ IdleEid /\ IdleScale /\ IdleUnit /\ IdleHost /\ IdleTf /\ IdleDxf
    /\ IdleBuild /\ IdleMain /\ IdleMerge /\ IdlePath

ParseRaw ==
    /\ IsNone(raw_out)
    /\ raw_out' = Some(parse_dxf_raw(RawFile(raw_in.es, raw_in.ended)))
    /\ UNCHANGED <<raw_in, eidVars, scVars, unitVars, hostVars, tfVars, dxfVars, buildVars,
                   mainVars, mergeVars, pathVars>>

NextRaw == ParseRaw

SpecRaw == InitRaw /\ [][NextRaw]_vars

-----------------------------------------------------------------------------
(* stack_ifc.py: merge_ifc_files *)

MaxFloors   == 2      \* floors in floor_data_list
MaxFailures == 1      \* library calls that raise in one run

\* Lines 105-111
product_types ==
    << "IfcWall", "IfcWallStandardCase", "IfcSlab", "IfcBeam", "IfcColumn",
       "IfcDoor", "IfcWindow", "IfcCurtainWall", "IfcStair", "IfcRailing",
       "IfcRoof", "IfcCovering", "IfcFurniture", "IfcBuildingElementProxy",
       "IfcPlate", "IfcMember", "IfcFooting", "IfcFlowTerminal",
       "IfcOpeningElement" >>

\* entity.is_a(ptype) for the classes of the model: the class itself or one
\* of its supertypes in the IFC schema.
IsA(cls, ptype) ==
    \/ cls = ptype
    \/ <<cls, ptype>> \in { <<"IfcWallStandardCase", "IfcWall">>,
                            <<"IfcSlabStandardCase", "IfcSlab">> }

\* src.by_type(ptype): the entities of the class and of its subtypes, in file
\* order.  An entity of a source file is [cls, Name, id].
by_type(src, ptype) == SelectSeq(src, LAMBDA e : IsA(e.cls, ptype))

\* Lines 113-118: the list `products`, from the type with index k on.
RECURSIVE collect_products(_, _)
collect_products(src, k) ==
    IF k > Len(product_types) THEN <<>>
    ELSE by_type(src, product_types[k]) \o collect_products(src, k + 1)

Entity(cls, name, id) == [cls |-> cls, Name |-> name, id |-> id]

SourceFiles ==
    { << Entity("IfcWall", Some("W1"), 1), Entity("IfcWallStandardCase", Some("W2"), 2),
         Entity("IfcDoor", None, 3) >>,
      << Entity("IfcSpace", Some("Room"), 1), Entity("IfcWall", None, 2),
         Entity("IfcOpeningElement", Some("O1"), 3) >>,
      << Entity("IfcSlabStandardCase", Some("S1"), 1), Entity("IfcWindow", Some("N1"), 2) >>,
      << >> }
\* A floor of floor_data_list: its elevation and the file behind its
\* file_path / file_bytes, which ifcopenshell.open reads (readable, with the
\* entities src) or rejects by raising (not an IFC file, no such file).
MergeFloors ==
    { [elevation |-> 3 * Len(src), src |-> src, readable |-> TRUE] : src \in SourceFiles }
    \cup { [elevation |-> 6, src |-> <<>>, readable |-> FALSE] }

InitMerge ==
    /\ floors \in UNION { [1..n -> MergeFloors] : n \in 0..MaxFloors }
    /\ mpc = "start"
    /\ fi = 0 /\ products = <<>> /\ pi = 0 /\ copied_count = 0
    /\ merged = [storeys |-> <<>>, elements |-> <<>>, contained |-> {}]
    /\ report = <<>>
    /\ failures = 0
    /\ IdleMain /\ IdlePure /\ IdlePath

\* Lines 21-57: no floor raises, one floor returns the source file as it is,
\* more floors start the merged file.
MergeStart ==
    /\ mpc = "start"
    /\ mpc' = IF Len(floors) = 0 THEN "raised"
              ELSE IF Len(floors) = 1
              THEN (IF floors[1].readable THEN "returned_source" ELSE "raised")
              ELSE "floor"
    /\ UNCHANGED <<floors, fi, products, pi, copied_count, merged, report, failures,
                   mainVars, pureVars, pathVars>>

\* Lines 60-120: the storey of floor fi and the products found in its file.
\* ifcopenshell.open (lines 96, 102) is outside every try: what it raises
\* leaves merge_ifc_files, the storey already created.
BeginFloor ==
    /\ mpc = "floor"
    /\ fi < Len(floors)
    /\ merged' = [merged EXCEPT !.storeys =
                    Append(@, [Name |-> <<"Floor_", fi>>, Elevation |-> floors[fi + 1].elevation])]
    /\ products' = IF floors[fi + 1].readable THEN collect_products(floors[fi + 1].src, 1)
                   ELSE products
    /\ pi' = IF floors[fi + 1].readable THEN 0 ELSE pi
    /\ copied_count' = IF floors[fi + 1].readable THEN 0 ELSE copied_count
    /\ mpc' = IF floors[fi + 1].readable THEN "copy" ELSE "raised"
    /\ UNCHANGED <<floors, fi, report, failures, mainVars, pureVars, pathVars>>

\* The first storey of the merged file
first_storey(i) == 1

\* Lines 68-71, 132: the storey created in iteration i of the floor loop, the
\* relating_structure of that iteration's assign_container, as an index into
\* merged.storeys.
floor_storey(i) == i + 1

\* Lines 124-139: one product.  root.create_entity or spatial.assign_container
\* may raise; the except clause skips to the next product.
CopyProduct ==
    /\ mpc = "copy"
    /\ pi < Len(products)
    /\ \E outcome \in {"ok", "create_raises", "assign_raises"} :
          LET product == products[pi + 1]
              new_element ==
                 [cls |-> product.cls,
                  Name |-> IF IsNone(product.Name) THEN <<product.cls, fi, copied_count>>
                           ELSE <<Val(product.Name)>>,
                  from |-> <<fi, product.id>>]
          IN  /\ outcome # "ok" => failures < MaxFailures
              /\ failures' = IF outcome = "ok" THEN failures ELSE failures + 1
              /\ merged' =
                    IF outcome = "create_raises" THEN merged
                    ELSE IF outcome = "assign_raises"
                    THEN [merged EXCEPT !.elements = Append(@, new_element)]
                    ELSE [merged EXCEPT !.elements = Append(@, new_element),
                                        !.contained = @ \cup {<<Len(merged.elements) + 1, floor_storey(fi)>>}]
              /\ copied_count' = IF outcome = "ok" THEN copied_count + 1 ELSE copied_count
    /\ pi' = pi + 1
    /\ UNCHANGED <<floors, mpc, fi, products, report, mainVars, pureVars, pathVars>>

\* Lines 141-151
EndFloor ==
    /\ mpc = "copy"
    /\ pi = Len(products)
    /\ report' = Append(report, [floor |-> fi, found |-> Len(products), copied |-> copied_count])
    /\ fi' = fi + 1
    /\ mpc' = "floor"
    /\ UNCHANGED <<floors, products, pi, copied_count, merged, failures,
                   mainVars, pureVars, pathVars>>

\* Lines 153-154
MergeReturn ==
    /\ mpc = "floor"
    /\ fi = Len(floors)
    /\ mpc' = "returned_merged"
    /\ UNCHANGED <<floors, fi, products, pi, copied_count, merged, report, failures,
                   mainVars, pureVars, pathVars>>

NextMerge ==
    \/ MergeStart
    \/ BeginFloor
    \/ CopyProduct
    \/ EndFloor
    \/ MergeReturn

SpecMerge == InitMerge /\ [][NextMerge]_vars

-----------------------------------------------------------------------------
(* svg2ifc.py: _path_to_polylines *)

CURVE_SEGMENTS == 32
MaxCalls == 3         \* calls of _path_to_polylines in one run

\* A token of _svg_path_tokenize: a command letter or a number.
Cmd(c) == [k |-> "cmd", c |-> c, n |-> 0]
Num(n) == [k |-> "num", c |-> "", n |-> n]

\* A vertex: its coordinates, or (arc # <<>>) the k-th sample of the arc with
\* the arguments <<x1, y1, x2, y2, rx, ry, phi, large_arc, sweep>>, whose
\* coordinates are sines and cosines of those arguments.
Pt(x, y) == [x |-> x, y |-> y, arc |-> <<>>]
ArcPt(args, k) == [x |-> RatInt(0), y |-> RatInt(0), arc |-> Append(args, k)]

\* The locals of a call with the current point left where the call before
\* ended (x and y not set back to 0.0).
stale_locals(toks) ==
    [toks |-> toks, i |-> 0, cmd |-> "", x |-> flat.x, y |-> flat.y, sx |-> 0, sy |-> 0,
     cur |-> <<>>, polys |-> <<>>]

\* Lines 1343-1348: the locals of a call, as the call sets them.
fresh_locals(toks) ==
    [toks |-> toks, i |-> 0, cmd |-> "", x |-> 0, y |-> 0, sx |-> 0, sy |-> 0,
     cur |-> <<>>, polys |-> <<>>]

\* The samples taken at t = (k-1)/CURVE_SEGMENTS
_bezier_cubic_from_start(p0, p1, p2, p3, k) ==
    LET j == k - 1
        u == CURVE_SEGMENTS - j
        q == CURVE_SEGMENTS * CURVE_SEGMENTS * CURVE_SEGMENTS
        B(a) == Rat(u * u * u * p0[a] + 3 * u * u * j * p1[a] + 3 * u * j * j * p2[a]
                    + j * j * j * p3[a], q)
    IN  Pt(B(1), B(2))

\* Lines 1266-1271 at t = k/CURVE_SEGMENTS (line 1418)
_bezier_cubic(p0, p1, p2, p3, k) ==
    LET u == CURVE_SEGMENTS - k
        q == CURVE_SEGMENTS * CURVE_SEGMENTS * CURVE_SEGMENTS
        B(a) == Rat(u * u * u * p0[a] + 3 * u * u * k * p1[a] + 3 * u * k * k * p2[a]
                    + k * k * k * p3[a], q)
    IN  Pt(B(1), B(2))

_bezier_quad(p0, p1, p2, k) ==
    LET u == CURVE_SEGMENTS - k
        q == CURVE_SEGMENTS * CURVE_SEGMENTS
        B(a) == Rat(u * u * p0[a] + 2 * u * k * p1[a] + k * k * p2[a], q)
    IN  Pt(B(1), B(2))

\* Lines 1285-1337.  den == 0 exactly when the two end points coincide.
_arc_to_points(x1, y1, x2, y2, rx, ry, phi, large_arc, sweep) ==
    IF rx = 0 \/ ry = 0 THEN <<Pt(RatInt(x2), RatInt(y2))>>
    ELSE IF x1 = x2 /\ y1 = y2 THEN <<Pt(RatInt(x2), RatInt(y2))>>
    ELSE [k \in 1..CURVE_SEGMENTS |->
            ArcPt(<<x1, y1, x2, y2, Abs(rx), Abs(ry), phi % 360, large_arc # 0, sweep # 0>>, k)]

\* How many numbers one repetition of a command reads through num()
NumArgs(cmd) ==
    CASE cmd \in {"M", "m", "L", "l"} -> 2
      [] cmd \in {"H", "h", "V", "v"} -> 1
      [] cmd \in {"C", "c"} -> 6
      [] cmd \in {"Q", "q"} -> 4
      [] cmd \in {"A", "a"} -> 7
      [] OTHER -> 0

\* Lines 1357-1365 and 1451-1456: the close command
close_subpath(f) ==
    [f EXCEPT !.polys = IF f.cur # <<>>
                        THEN Append(@, Append(f.cur, Pt(RatInt(f.sx), RatInt(f.sy))))
                        ELSE @,
              !.cur = <<>>, !.x = f.sx, !.y = f.sy]

\* Lines 1355-1365: the token is a command letter
read_letter(f, c) ==
    IF c \in {"Z", "z"}
    THEN close_subpath([f EXCEPT !.cmd = c, !.i = @ + 1])
    ELSE [f EXCEPT !.cmd = c, !.i = @ + 1]

\* Lines 1370-1449: one repetition of the command f.cmd with the numbers a
apply_command(f, a) ==
    LET rel == f.cmd \in {"m", "l", "h", "v", "c", "q", "a"}
        ox  == IF rel THEN f.x ELSE 0
        oy  == IF rel THEN f.y ELSE 0
        g   == [f EXCEPT !.i = @ + Len(a)]
    IN  CASE f.cmd \in {"M", "m"} ->
               [g EXCEPT !.x = ox + a[1], !.y = oy + a[2],
                         !.sx = ox + a[1], !.sy = oy + a[2],
                         !.polys = IF f.cur # <<>> THEN Append(@, f.cur) ELSE @,
                         !.cur = <<Pt(RatInt(ox + a[1]), RatInt(oy + a[2]))>>,
                         !.cmd = IF f.cmd = "M" THEN "L" ELSE "l"]
          [] f.cmd \in {"L", "l"} ->
               [g EXCEPT !.x = ox + a[1], !.y = oy + a[2],
                         !.cur = Append(@, Pt(RatInt(ox + a[1]), RatInt(oy + a[2])))]
          [] f.cmd \in {"H", "h"} ->
               [g EXCEPT !.x = ox + a[1],
                         !.cur = Append(@, Pt(RatInt(ox + a[1]), RatInt(f.y)))]
          [] f.cmd \in {"V", "v"} ->
               [g EXCEPT !.y = oy + a[1],
                         !.cur = Append(@, Pt(RatInt(f.x), RatInt(oy + a[1])))]
          [] f.cmd \in {"C", "c"} ->
               [g EXCEPT !.x = ox + a[5], !.y = oy + a[6],
                         !.cur = @ \o [k \in 1..CURVE_SEGMENTS |->
                                    _bezier_cubic(<<f.x, f.y>>, <<ox + a[1], oy + a[2]>>,
                                                  <<ox + a[3], oy + a[4]>>,
                                                  <<ox + a[5], oy + a[6]>>, k)]]
          [] f.cmd \in {"Q", "q"} ->
               [g EXCEPT !.x = ox + a[3], !.y = oy + a[4],
                         !.cur = @ \o [k \in 1..CURVE_SEGMENTS |->
                                    _bezier_quad(<<f.x, f.y>>, <<ox + a[1], oy + a[2]>>,
                                                 <<ox + a[3], oy + a[4]>>, k)]]
          [] f.cmd \in {"A", "a"} ->
               [g EXCEPT !.x = ox + a[6], !.y = oy + a[7],
                         !.cur = @ \o _arc_to_points(f.x, f.y, ox + a[6], oy + a[7],
                                                     a[1], a[2], a[3], a[4], a[5])]

\* One iteration of the while loop of line 1355:
\* [exit, f] with exit "continue", "break" or "raise".
path_iteration(f) ==
    LET t == f.toks[f.i + 1]
        n == NumArgs(f.cmd)
    IN  IF t.k = "cmd" THEN [exit |-> "continue", f |-> read_letter(f, t.c)]
        ELSE IF f.cmd = "" THEN [exit |-> "break", f |-> f]
        ELSE IF f.cmd \in {"Z", "z"} THEN [exit |-> "continue", f |-> close_subpath(f)]
        ELSE IF f.i + n > Len(f.toks) THEN [exit |-> "raise", f |-> f]      \* IndexError
        ELSE IF \E j \in 1..n : f.toks[f.i + j].k = "cmd"
             THEN [exit |-> "raise", f |-> f]                               \* ValueError
        ELSE [exit |-> "continue",
              f |-> apply_command(f, [j \in 1..n |-> f.toks[f.i + j].n])]

\* The d attributes the caller flattens, already tokenized:
\*   M 0 0 L 4 0 4 4 Z          m 1 1 l 2 0 h 1 v 1 z
\*   m 1 0 c 0 4 4 4 4 0        M 0 0 Q 2 2 4 0 a 2 2 0 0 1 4 0
\*   l 1 1 H 3                  M 1            3 4
\*   (empty)                    M 0 0 L 1 1 Z 5
\*   M 0 0 L 4 0 4 4 Z L 2 2 6 2 z
PathStrings ==
    { << Cmd("M"), Num(0), Num(0), Cmd("L"), Num(4), Num(0), Num(4), Num(4), Cmd("Z") >>,
      << Cmd("m"), Num(1), Num(1), Cmd("l"), Num(2), Num(0), Cmd("h"), Num(1),
         Cmd("v"), Num(1), Cmd("z") >>,
      << Cmd("m"), Num(1), Num(0), Cmd("c"), Num(0), Num(4), Num(4), Num(4), Num(4), Num(0) >>,
      << Cmd("M"), Num(0), Num(0), Cmd("Q"), Num(2), Num(2), Num(4), Num(0),
         Cmd("a"), Num(2), Num(2), Num(0), Num(0), Num(1), Num(4), Num(0) >>,
      << Cmd("l"), Num(1), Num(1), Cmd("H"), Num(3) >>,
      << Cmd("M"), Num(1) >>,
      << Num(3), Num(4) >>,
      << >>,
      << Cmd("M"), Num(0), Num(0), Cmd("L"), Num(1), Num(1), Cmd("Z"), Num(5) >>,
      << Cmd("M"), Num(0), Num(0), Cmd("L"), Num(4), Num(0), Num(4), Num(4), Cmd("Z"),
         Cmd("L"), Num(2), Num(2), Num(6), Num(2), Cmd("z") >> }

\* Before the first call there is no frame: its place holds zeroes.
NoFrame ==
    [toks |-> <<>>, i |-> 0, cmd |-> "", x |-> 0, y |-> 0, sx |-> 0, sy |-> 0,
     cur |-> <<>>, polys |-> <<>>]

InitPath ==
    /\ queue \in UNION { [1..n -> PathStrings] : n \in 0..MaxCalls }
    /\ flat = NoFrame
    /\ ppc = "idle"
    /\ calls = <<>>
    /\ IdleMain /\ IdlePure /\ IdleMerge

\* Lines 1339-1348: the caller passes the next d; no token returns [] at once.
PathCall ==
    /\ ppc = "idle"
    /\ queue # <<>>
    /\ queue' = Tail(queue)
    /\ IF Head(queue) = <<>>
       THEN /\ calls' = Append(calls, [d |-> Head(queue), polys |-> <<>>])
            /\ UNCHANGED <<flat, ppc>>
       ELSE /\ flat' = fresh_locals(Head(queue))
            /\ ppc' = "run"
            /\ UNCHANGED calls
    /\ UNCHANGED <<mainVars, pureVars, mergeVars>>

\* Lines 1355-1459: one iteration of the loop
PathStep ==
    /\ ppc = "run"
    /\ flat.i < Len(flat.toks)
    /\ flat' = path_iteration(flat).f
    /\ ppc' = CASE path_iteration(flat).exit = "continue" -> "run"
                [] path_iteration(flat).exit = "break"    -> "tail"
                [] path_iteration(flat).exit = "raise"    -> "raised"
    /\ UNCHANGED <<queue, calls, mainVars, pureVars, mergeVars>>

\* Line 1355: the loop condition fails
PathLoopExit ==
    /\ ppc = "run"
    /\ flat.i >= Len(flat.toks)
    /\ ppc' = "tail"
    /\ UNCHANGED <<queue, flat, calls, mainVars, pureVars, mergeVars>>

\* Lines 1461-1463
PathReturn ==
    /\ ppc = "tail"
    /\ calls' = Append(calls,
                   [d |-> flat.toks,
                    polys |-> IF flat.cur # <<>> THEN Append(flat.polys, flat.cur)
                              ELSE flat.polys])
    /\ ppc' = "idle"
    /\ UNCHANGED <<queue, flat, mainVars, pureVars, mergeVars>>

NextPath ==
    \/ PathCall
    \/ PathStep
    \/ PathLoopExit
    \/ PathReturn

SpecPath == InitPath /\ [][NextPath]_vars

\* The interpreter runs the loop on: an iteration that can be taken is taken.
SpecPathFair == SpecPath /\ WF_vars(NextPath)

-----------------------------------------------------------------------------
(* Properties of main(): host binding and opening dimensions *)

\* Edge j (1-based) of a closed polygon, as closest_wall_edge records it
EdgeOf(poly, j) == <<poly[j][1], poly[j][2], poly[j + 1][1], poly[j + 1][2]>>
\* The square of the distance from the point c to edge j of poly
EdgeDist(poly, j, c) ==
    dist_point_to_segment(c[1], c[2], poly[j][1], poly[j][2], poly[j + 1][1], poly[j + 1][2]).d
NumEdges(poly) == Len(poly) - 1
HasHost(h) == ~IsNone(h.host)
DistinctPoints(poly) == Cardinality({poly[k] : k \in 1..Len(poly)})

\* The iteration h of build_hosted bound the nearest edge of the nearest wall,
\* the first wall and, within it, the first edge at that distance.
NearestFirst(h) ==
    /\ HasHost(h)
    /\ \A w \in 1..Len(wall_recs) : \A j \in 1..NumEdges(wall_recs[w].poly) :
          ~RatLess(EdgeDist(wall_recs[w].poly, j, h.c), h.d)
    /\ \A w \in 1..(Val(h.host) - 1) : \A j \in 1..NumEdges(wall_recs[w].poly) :
          RatLess(h.d, EdgeDist(wall_recs[w].poly, j, h.c))
    /\ \E j \in 1..NumEdges(wall_recs[Val(h.host)].poly) :
          /\ EdgeOf(wall_recs[Val(h.host)].poly, j) = Val(h.edge)
          /\ RatEq(EdgeDist(wall_recs[Val(h.host)].poly, j, h.c), h.d)
          /\ \A j2 \in 1..(j - 1) :
                RatLess(h.d, EdgeDist(wall_recs[Val(h.host)].poly, j2, h.c))

\* C1: with at least one wall, every opening processed by build_hosted is
\* bound to a (wall, edge) pair at the least point-to-segment distance from
\* its centroid over all edges of all walls; among walls at that distance the
\* first in input order is the host, and within it the first such edge.
C1_HostIsNearestFirst ==
    \A k \in 1..Len(hosted) : wall_recs # <<>> => NearestFirst(hosted[k])

\* An opening at distance 0 from two walls (it sits on their shared edge) and
\* an opening whose nearest point is a corner, where two edges of the host tie.
C1_Witness ==
    /\ Len(wall_recs) = 2
    /\ \E k \in 1..Len(hosted) :
          /\ HasHost(hosted[k])
          /\ Val(hosted[k].host) = 1
          /\ \E j \in 1..NumEdges(wall_recs[2].poly) :
                RatEq(EdgeDist(wall_recs[2].poly, j, hosted[k].c), hosted[k].d)
          /\ Cardinality({j \in 1..NumEdges(wall_recs[1].poly) :
                RatEq(EdgeDist(wall_recs[1].poly, j, hosted[k].c), hosted[k].d)}) >= 2

\* C2: when the host polygon is closed (first vertex = last vertex) and has
\* at least 3 distinct points, the two endpoints of the host edge differ.
C2_HostEdgeNotZeroLength ==
    \A k \in 1..Len(hosted) :
        HasHost(hosted[k]) =>
            LET p == wall_recs[Val(hosted[k].host)].poly
                e == Val(hosted[k].edge)
            IN  (p[1] = p[Len(p)] /\ DistinctPoints(p) >= 3) => <<e[1], e[2]>> # <<e[3], e[4]>>

\* C7: every opening that reaches void creation has a width > 0.
C7_WidthPositive ==
    \A k \in 1..Len(hosted) : HasHost(hosted[k]) => hosted[k].width > 0

\* C10: whenever the scaler applied a transform to the instance of an opening,
\* Scale2 is 1 in every operator it attached, and Scale and Scale3 are > 0.
C10_ScalesPositive ==
    \A k \in 1..Len(hosted) :
        (HasHost(hosted[k]) /\ ~IsNone(hosted[k].sc)) =>
            LET reps == Val(hosted[k].after) IN
            \A r \in 1..Len(reps) : \A n \in 1..Len(reps[r]) :
                reps[r][n].mapped =>
                    LET op == Val(reps[r][n].MappingTarget) IN
                    /\ RatEq(op.Scale2, RatInt(1))
                    /\ RatPos(op.Scale)
                    /\ (~IsNone(op.Scale3) => RatPos(Val(op.Scale3)))

-----------------------------------------------------------------------------
(* Properties of parse_spec_from_eid *)

\* The non-empty pieces of the identifier and the pieces after the type token
EidToks == SelectSeq(eid_in, LAMBDA t : t # "")
EidRest == SubSeq(EidToks, 3, Len(EidToks))
IsNumeric(t) == ~IsNone(FloatOf(t))
\* How many pieces of rest are numbers before the first one that is not
LeadingNumbers(rest) ==
    CHOOSE n \in 0..Len(rest) :
        /\ \A k \in 1..n : IsNumeric(rest[k])
        /\ n < Len(rest) => ~IsNumeric(rest[n + 1])
EidNum(k) == Val(FloatOf(EidRest[k]))
EidHasKind == Len(EidToks) >= 2 /\ (StartsWithW(EidToks[1]) \/ StartsWithD(EidToks[1]))

\* C8: the tokens after the type token are read as numbers up to the first
\* non-numeric one.  Door: width = first number, sill = 0, height = second
\* number or 2.1.  Window: width = first number, sill = second number or 0.9,
\* height = third number or 1.2.  Without a first number the width is unset.
C8_NumbersStopAtFirstNonNumeric ==
    (~IsNone(eid_out) /\ EidHasKind) =>
        LET out == Val(eid_out)
            n   == LeadingNumbers(EidRest)
        IN  /\ out.width = (IF n >= 1 THEN Some(EidNum(1)) ELSE None)
            /\ StartsWithW(EidToks[1]) =>
                  /\ out.kind = Some("WINDOW")
                  /\ out.sill = Some(IF n >= 2 THEN EidNum(2) ELSE 9)
                  /\ out.height = Some(IF n >= 3 THEN EidNum(3) ELSE 12)
            /\ ~StartsWithW(EidToks[1]) =>
                  /\ out.kind = Some("DOOR")
                  /\ out.sill = Some(0)
                  /\ out.height = Some(IF n >= 2 THEN EidNum(2) ELSE 21)

\* A door whose second piece after the type is not a number and whose third
\* is: the height is the default, the third piece did not contribute.
C8_Witness ==
    /\ eid_in = <<"d1", "DOUBLE_SWING", "1.8", "abc", "0.2">>
    /\ ~IsNone(eid_out)
    /\ Val(eid_out).width = Some(18)
    /\ Val(eid_out).height = Some(21)

-----------------------------------------------------------------------------
(* Properties of the scaler *)

ScDone     == ~IsNone(sc_out)
ScProduct  == sc_in.product
ScBox      == Val(sc_in.product.bbox)
ScCentre(a) == Rat(ScBox.mn[a] + ScBox.mx[a], 2)
ScExtent(a) == ScBox.mx[a] - ScBox.mn[a]
\* The operators the call attached: those of the mapped items after the call
ScOperators ==
    LET reps == Val(Val(sc_out).Representation)
    IN  UNION { { Val(reps[r][n].MappingTarget) :
                    n \in { m \in 1..Len(reps[r]) : reps[r][m].mapped } } :
                r \in 1..Len(reps) }
\* Where the operator op sends the centre of the box on axis a (a = 1, 2, 3)
ImageOfCentre(op, a) ==
    RatAdd(RatMul(IF a = 1 THEN op.Scale ELSE IF a = 2 THEN op.Scale2 ELSE Val(op.Scale3),
                  ScCentre(a)),
           op.LocalOrigin[a])
ScApplied == ScDone /\ ~IsNone(Val(sc_out).ret)
ScPositiveTargets == sc_in.target_width > 0 /\ sc_in.target_height > 0

C9_DegenerateSkipsEntirely ==
    ScDone =>
        ((\/ IsNone(ScProduct.Representation)
          \/ IsNone(ScProduct.bbox)
          \/ \E a \in 1..3 : ScExtent(a) < ExtentEps)
         => /\ IsNone(Val(sc_out).ret)
            /\ Val(sc_out).Representation = ScProduct.Representation)

\* Only the depth is below the epsilon, and there are mapped items to keep.
C9_Witness ==
    /\ ScDone /\ ScPositiveTargets
    /\ ~IsNone(ScProduct.Representation) /\ ~IsNone(ScProduct.bbox)
    /\ ScExtent(1) >= ExtentEps /\ ScExtent(2) < ExtentEps /\ ScExtent(3) >= ExtentEps
    /\ \E r \in 1..Len(Val(ScProduct.Representation)) :
          \E n \in 1..Len(Val(ScProduct.Representation)[r]) :
              Val(ScProduct.Representation)[r][n].mapped
    /\ Val(sc_out).Representation = ScProduct.Representation

-----------------------------------------------------------------------------
(* Properties of compute_svg_unit_to_meter *)

\* Millimetres in one unit of a physical length, as a fraction
MmPerUnit(u) ==
    CASE u = "mm" -> RatInt(1)
      [] u = "cm" -> RatInt(10)
      [] u = "m"  -> RatInt(1000)
      [] u = "in" -> Rat(254, 10)
      [] u = "pt" -> Rat(254, 720)
      [] u = "pc" -> Rat(254, 60)
PhysicalUnits == {"mm", "cm", "m", "in", "pt", "pc"}
UnitDeclared == ~IsNone(unit_in.width) /\ Val(unit_in.width).ok
UnitPhysical == UnitDeclared /\ Val(unit_in.width).unit \in PhysicalUnits
UnitWidthMm  == RatMul(RatInt(Val(unit_in.width).val), MmPerUnit(Val(unit_in.width).unit))
UnitHasV     == ~IsNone(unit_in.viewBox) /\ Len(Val(unit_in.viewBox)) = 4
UnitV        == Val(unit_in.viewBox)[3]
Tenth        == Rat(1, 10)

\* C6: with a physical width P declared and a viewBox width V > 0, the result
\* times V is P times the constant 0.1; with the width undeclared, unitless or
\* in px, or without a viewBox width > 0, the result is 1 times 0.1.
C6_ScaleReproducesWidth ==
    ~IsNone(unit_out) =>
        /\ (UnitPhysical /\ UnitHasV /\ RatPos(UnitV)) =>
              RatEq(RatMul(Val(unit_out), UnitV), RatMul(UnitWidthMm, Tenth))
        /\ (\/ ~UnitDeclared
            \/ Val(unit_in.width).unit \in {"", "px"}
            \/ ~UnitHasV
            \/ ~RatPos(UnitV)) => RatEq(Val(unit_out), Tenth)

-----------------------------------------------------------------------------
(* Properties of merge_ifc_files *)

\* The entities of a source file that belong to a supported category
Supported(src) == SelectSeq(src, LAMBDA e : \E k \in 1..Len(product_types) : IsA(e.cls, product_types[k]))
\* The elements of the merged file contained in storey i (1-based) that were
\* copied from the entity with identifier id of floor i
CopiesOf(i, id) ==
    { n \in 1..Len(merged.elements) :
        /\ merged.elements[n].from = <<i - 1, id>>
        /\ <<n, i>> \in merged.contained }
MergedAll == mpc = "returned_merged"

\* C4: for N > 1 floors the merged file has exactly N storeys and, when no
\* copy failed, the number copied into storey i is the number of entities of
\* supported categories in floor i, each of them copied exactly once.
C4_EachSupportedElementCopiedOnce ==
    (MergedAll /\ Len(floors) > 1 /\ failures = 0) =>
        /\ Len(merged.storeys) = Len(floors)
        /\ \A i \in 1..Len(floors) :
              /\ report[i].copied = Len(Supported(floors[i].src))
              /\ \A k \in 1..Len(floors[i].src) :
                    IF \E t \in 1..Len(product_types) : IsA(floors[i].src[k].cls, product_types[t])
                    THEN Cardinality(CopiesOf(i, floors[i].src[k].id)) = 1
                    ELSE CopiesOf(i, floors[i].src[k].id) = {}

-----------------------------------------------------------------------------
(* Properties of _path_to_polylines *)

\* C5: two calls with the same d return the same list of polylines (the same
\* number of vertices, the same coordinates), whatever was flattened between.
C5_SamePathSamePolylines ==
    \A a \in 1..Len(calls) : \A b \in 1..Len(calls) :
        calls[a].d = calls[b].d => calls[a].polys = calls[b].polys

\* A path that starts with a relative command and holds a curve was flattened
\* twice, with a different path, ending at another point, in between.
C5_Witness ==
    /\ Len(calls) = 3
    /\ calls[1].d = calls[3].d
    /\ calls[2].d # calls[1].d
    /\ calls[1].d # <<>>
    /\ calls[1].d[1] = Cmd("m")
    /\ Len(calls[1].polys) = 1
    /\ Len(calls[1].polys[1]) = CURVE_SEGMENTS + 1
    /\ Len(calls[2].polys) = 1
    /\ calls[2].polys[1][Len(calls[2].polys[1])].arc # <<>>
    /\ calls[1].polys = calls[3].polys

-----------------------------------------------------------------------------
(* C11 *)

FarDone    == gauge = "Gm" /\ ~IsNone(far_out)
FarDropped == IsNone(Val(far_out).host)

\* C11: an opening is dropped by build_hosted exactly when the wall list is
\* empty; whenever at least one wall exists the opening is bound to a host.
C11_DroppedExactlyWithoutWalls ==
    FarDone => (FarDropped <=> far_in.recs = <<>>)

\* The case the code adds: walls exist, none nearer than 1e9 m, no host.
C11_DroppedAmongWalls ==
    FarDone /\ far_in.recs # <<>> /\ FarDropped

\* In main() on a drawing in decimetres: every opening processed is dropped
\* exactly when wall_recs is empty.
C11_MainDroppedExactlyWithoutWalls ==
    \A k \in 1..Len(hosted) : IsNone(hosted[k].host) <=> wall_recs = <<>>

-----------------------------------------------------------------------------
(* C12 *)

\* The least number of arguments a primitive takes
TfMinArgs(fn) == IF fn = "matrix" THEN 6 ELSE 1
TfKnown(fn) == fn \in {"translate", "scale", "rotate", "matrix"}
TfMalformed(p) ==
    \/ ~TfKnown(Lower(p.fn))
    \/ Len(p.args) < TfMinArgs(Lower(p.fn))
    \/ \E k \in 1..Len(p.args) : ~p.args[k].num

\* The product, left to right, of the terms of prims[k..], a malformed
\* primitive counting as the identity
RECURSIVE TfComposed(_, _, _)
TfComposed(prims, k, M) ==
    IF k > Len(prims) THEN M
    ELSE TfComposed(prims, k + 1,
            MatMul(M, IF TfMalformed(prims[k]) THEN Identity3
                      ELSE term_matrix(Lower(prims[k].fn), float_vals(prims[k].args))))

\* C12: parse_transform never aborts; a malformed primitive (unknown name, too
\* few arguments, non-numeric argument) contributes the identity and every
\* other primitive is composed, left to right in encounter order.
C12_MalformedPrimitiveIsIdentity ==
    ~IsNone(tf_out) =>
        /\ ~Val(tf_out).raised
        /\ Val(tf_out).M = TfComposed(tf_in, 1, Identity3)

\* What holds of the code: it raises exactly on a non-numeric argument, and
\* otherwise returns the product the claim describes.
C12_RaisesExactlyOnNonNumeric ==
    ~IsNone(tf_out) =>
        /\ Val(tf_out).raised <=> \E k \in 1..Len(tf_in) : float_raises(tf_in[k].args)
        /\ ~Val(tf_out).raised => Val(tf_out).M = TfComposed(tf_in, 1, Identity3)

-----------------------------------------------------------------------------
(* C13 *)

\* The elements the merged file holds in storey i (1-based)
ContainedIn(i) == { n \in 1..Len(merged.elements) : <<n, i>> \in merged.contained }

\* C13: for N > 1 floors merge_ifc_files returns the merged file and never
\* raises; a failed copy is skipped, every floor is processed, and the number
\* reported for a floor is the number of its elements whose copy succeeded.
C13_MergeNeverRaises ==
    Len(floors) > 1 =>
        /\ mpc # "raised"
        /\ \A i \in 1..Len(report) : report[i].copied = Cardinality(ContainedIn(i))
        /\ MergedAll => Len(report) = Len(floors)

\* What holds of the code: it raises exactly at a floor whose file cannot be
\* opened; failed copies are skipped and the counts are those of the
\* successful copies.
C13_RaisesOnlyOnUnreadableFloor ==
    Len(floors) > 1 =>
        /\ mpc = "raised" => ~floors[fi + 1].readable
        /\ \A i \in 1..Len(report) : report[i].copied = Cardinality(ContainedIn(i))
        /\ MergedAll => /\ Len(report) = Len(floors)
                        /\ \A i \in 1..Len(floors) : floors[i].readable

-----------------------------------------------------------------------------
(* C14 *)

VoidedBy(op)   == { v[2] : v \in { x \in ifc.voids : x[1] = op } }
FilledBy(op)   == { v[2] : v \in { x \in ifc.fills : x[1] = op } }
FillsOf(el)    == { v[1] : v \in { x \in ifc.fills : x[2] = el } }
IsOpening(n)   == ifc.products[n].cls = "IfcOpeningElement"
IsFilling(n)   == ifc.products[n].cls \in {"IfcWindow", "IfcDoor"}
\* The products the run has added to the store
BuiltInRun ==
    IF ~session.purged THEN {}
    ELSE (session.base + 1)..Len(ifc.products)

-----------------------------------------------------------------------------
(* C16 *)

TypeClass(h)   == IF h.is_win THEN "IfcWindowType" ELSE "IfcDoorType"
DefaultToken(h) == IF h.is_win THEN DEFAULT_WIN_TYPE ELSE DEFAULT_DOOR_TYPE
\* The types of the library, as it was when h was resolved, of h's class
\* whose normalized name is the normalized token
Matching(h, token) ==
    { k \in 1..Len(h.types) :
         h.types[k].cls = TypeClass(h) /\ Norm(h.types[k].Name) = Norm(token) }
FirstMatch(h, token) ==
    h.types[CHOOSE k \in Matching(h, token) : \A j \in Matching(h, token) : k <= j]
Warned(kind, token) == \E k \in 1..Len(log) : log[k] = <<kind, token>>
GivenType(h)   == ifc.products[h.el].type

C16_PlaceholderReached ==
    \E k \in 1..Len(hosted) :
       /\ HasHost(hosted[k])
       /\ Matching(hosted[k], hosted[k].type_token) = {}
       /\ Matching(hosted[k], DefaultToken(hosted[k])) = {}

-----------------------------------------------------------------------------
(* C17 *)

\* Twice the signed area of a closed polygon (shoelace)
Area2(poly) ==
    SeqSum([k \in 1..(Len(poly) - 1) |->
              poly[k][1] * poly[k + 1][2] - poly[k + 1][1] * poly[k][2]])
Yielded == walls \o wins \o doors

\* C17: every shape yielded by iter_floorplan_shapes is closed, has at least
\* 3 distinct vertices and a non-zero area.
C17_YieldedShapesAreProperPolygons ==
    \A k \in 1..Len(Yielded) :
       LET poly == Yielded[k][1] IN
       /\ poly[1] = poly[Len(poly)]
       /\ DistinctPoints(poly) >= 3
       /\ Area2(poly) # 0

\* What holds of the code: a yielded shape is closed and has at least 3
\* vertices written, and a yielded rectangle has 4 distinct corners.
C17_YieldedShapesAreClosed ==
    \A k \in 1..Len(Yielded) :
       LET poly == Yielded[k][1] IN
       /\ poly[1] = poly[Len(poly)]
       /\ Len(poly) >= 3

-----------------------------------------------------------------------------
(* C18 *)

DxfWritten == ~IsNone(dxf_out) /\ Val(dxf_out).written
DxfFile    == Val(dxf_out).file
IsText(g, code, val) == g.code = code /\ g.text = val
\* Two vertices coincide: they differ by less than 1e-9 in x and in y
Coincide(p, q) == Abs(p[1] - q[1]) < DxfEps /\ Abs(p[2] - q[2]) < DxfEps

\* The groups f[k..] are entities as the claim describes them, up to the end
\* of the section: LWPOLYLINE, layer, a count n >= 2, a flag, then n vertices
\* of which no two consecutive ones coincide, the flag 1 exactly when n >= 3
\* and the first and last coincide.
RECURSIVE WellFormedEntities(_, _)
WellFormedEntities(f, k) ==
    IF k > Len(f) THEN FALSE
    ELSE IF IsText(f[k], 0, "ENDSEC") THEN k = Len(f) - 1
    ELSE /\ IsText(f[k], 0, "LWPOLYLINE")
         /\ k + 3 <= Len(f)
         /\ IsText(f[k + 1], 8, "0")
         /\ f[k + 2].code = 90
         /\ f[k + 3].code = 70
         /\ LET n == f[k + 2].num
                v == [j \in 1..n |-> <<f[k + 2 + 2 * j].num, f[k + 3 + 2 * j].num>>]
            IN  /\ n >= 2
                /\ k + 3 + 2 * n <= Len(f)
                /\ \A j \in 1..n : f[k + 2 + 2 * j].code = 10 /\ f[k + 3 + 2 * j].code = 20
                /\ \A j \in 1..(n - 1) : ~Coincide(v[j], v[j + 1])
                /\ f[k + 3].num = (IF n >= 3 /\ Coincide(v[1], v[n]) THEN 1 ELSE 0)
                /\ WellFormedEntities(f, k + 4 + 2 * n)

\* C18: a file svg_to_dxf writes is a header section, one entities section
\* and an end marker; every entity is an LWPOLYLINE whose declared count is
\* the number of vertices written, at least 2, no two consecutive vertices
\* coinciding, closed flag 1 exactly when it has at least 3 vertices and the
\* first and last coincide.
C18_DxfFileWellFormed ==
    DxfWritten =>
        /\ Len(DxfFile) >= 9
        /\ IsText(DxfFile[1], 0, "SECTION") /\ IsText(DxfFile[2], 2, "HEADER")
        /\ IsText(DxfFile[5], 0, "ENDSEC")
        /\ IsText(DxfFile[6], 0, "SECTION") /\ IsText(DxfFile[7], 2, "ENTITIES")
        /\ IsText(DxfFile[Len(DxfFile)], 0, "EOF")
        /\ Cardinality({k \in 1..Len(DxfFile) : IsText(DxfFile[k], 0, "SECTION")}) = 2
        /\ WellFormedEntities(DxfFile, 8)

\* A file with two entities: a closed one of 4 vertices whose last vertex is
\* near the first but not equal to it, and an open one that lost a vertex
\* to the cleaning.
C18_Witness ==
    /\ DxfWritten
    /\ dxf_in.polylines = << << <<0, 0>>, <<3, 0>>, <<0, 10>>, <<1, 0>> >>,
                             << <<0, 0>>, <<1, 1>>, <<10, 0>> >> >>
    /\ Len(DxfFile) = 7 + (4 + 8) + (4 + 4) + 2
    /\ DxfFile[10].num = 4 /\ DxfFile[11].num = 1
    /\ DxfFile[22].num = 2 /\ DxfFile[23].num = 0

-----------------------------------------------------------------------------
(* C15 *)

Purged      == session.purged
IsMarked(p) == p.cls \in purged_classes /\ is_generated(p)
\* The products the store still holds from before the run
Survivors   == SubSeq(ifc.products, 1, session.base)

\* C15: once remove_previous_generated has run the store holds no wall, door,
\* window or opening of an earlier run whose name carries the marker, every
\* other product it held is still there, unchanged and in order, and after
\* the rebuild the marked elements are those the run created.
C15_PurgeRemovesExactlyTheMarked ==
    Purged =>
        /\ Survivors = SelectSeq(world.store.products, LAMBDA p : ~IsMarked(p))
        /\ \A n \in 1..Len(ifc.products) : IsMarked(ifc.products[n]) => n > session.base

\* What holds of the code: nothing but marked products of the five classes
\* leaves the store, and every other product stays as it was.
C15_PurgeSparesTheRest ==
    Purged =>
        /\ SelectSeq(Survivors, LAMBDA p : ~IsMarked(p))
              = SelectSeq(world.store.products, LAMBDA p : ~IsMarked(p))
        /\ \A n \in 1..session.base : \E m \in 1..Len(world.store.products) :
              ifc.products[n] = world.store.products[m]

\* A marked wall of the earlier run is still in the store when the run ends.
C15_StuckWallSurvives ==
    /\ pc = "done"
    /\ \E n \in 1..session.base : IsMarked(ifc.products[n])

-----------------------------------------------------------------------------
(* C19 *)

NothingToBuildOn ==
    \/ world.svg = "missing"
    \/ ~world.loaded
    \/ world.spatial.storeys = <<>> /\ world.spatial.buildings = <<>> /\ world.spatial.sites = <<>>

\* C19: with the drawing missing, no store loaded, or a store with neither
\* storey nor building nor site, main never gets past its set-up and ends by
\* raising; a run that raised created no element, wrote no IFC file and called
\* no export function.  pick_storey returned the first storey, else the first
\* building, else the first site.
C19_AbortsBeforeBuilding ==
    /\ NothingToBuildOn => pc \in {"start", "setup", "raised"}
    /\ (pc = "raised" /\ (NothingToBuildOn \/ ~world.body)) =>
          /\ ifc = world.store
          /\ wall_recs = <<>> /\ hosted = <<>>
          /\ ~session.written
          /\ session.ops = <<>>
    /\ ~IsNone(storey) =>
          LET sp == world.spatial IN
          /\ sp.storeys # <<>> => Val(storey) = <<"IfcBuildingStorey", sp.storeys[1]>>
          /\ sp.storeys = <<>> /\ sp.buildings # <<>> => Val(storey) = <<"IfcBuilding", sp.buildings[1]>>
          /\ sp.storeys = <<>> /\ sp.buildings = <<>> =>
                sp.sites # <<>> /\ Val(storey) = <<"IfcSite", sp.sites[1]>>

\* A run on a loaded store that holds products but no storey, building or
\* site: it raised in the set-up, with the store as it was.
C19_Witness ==
    /\ pc = "raised"
    /\ world.svg = "small" /\ world.loaded /\ world.body
    /\ world.spatial.storeys = <<>> /\ world.spatial.buildings = <<>> /\ world.spatial.sites = <<>>
    /\ world.store = PriorStore
    /\ ifc = PriorStore
    /\ ~session.written

-----------------------------------------------------------------------------
(* C20 *)

\* The shapes of the drawing that the parse classified as cls
ShapesOf(cls) ==
    { <<poly_to_world(Val(iter_floorplan_shapes(node))[2]), node.id>> :
        node \in { m \in Drawing(world.svg) :
                      /\ ~IsNone(iter_floorplan_shapes(m))
                      /\ Val(iter_floorplan_shapes(m))[1] = cls } }
KindLetterIsDoor(eid)   == eid # <<>> /\ StartsWithD(eid[1])
KindLetterIsWindow(eid) == eid # <<>> /\ StartsWithW(eid[1])

\* C20: the element built for a shape is a window exactly for a shape
\* classified as window by its fill colour and a door exactly for one
\* classified as door; a kind letter of the identifier that disagrees changes
\* nothing of that, and then type token, sill and height are the defaults of
\* the colour's kind.
C20_KindFromColourAlone ==
    /\ \A k \in 1..Len(wins) : wins[k] \in ShapesOf("window")
    /\ \A k \in 1..Len(doors) : doors[k] \in ShapesOf("door")
    /\ \A k \in 1..Len(walls) : walls[k] \in ShapesOf("wall")
    /\ \A k \in 1..Len(hosted) :
          LET h == hosted[k] IN
          /\ <<h.poly, h.eid>> \in (IF h.is_win THEN ShapesOf("window") ELSE ShapesOf("door"))
          /\ HasHost(h) =>
               /\ ifc.products[h.el].cls = (IF h.is_win THEN "IfcWindow" ELSE "IfcDoor")
               /\ (h.is_win /\ KindLetterIsDoor(h.eid)) =>
                     /\ h.type_token = DEFAULT_WIN_TYPE
                     /\ h.sill = DEFAULT_FALLBACK_SILL
                     /\ h.height = DEFAULT_FALLBACK_WIN_H
               /\ (~h.is_win /\ KindLetterIsWindow(h.eid)) =>
                     /\ h.type_token = DEFAULT_DOOR_TYPE
                     /\ h.sill = 0
                     /\ h.height = DEFAULT_FALLBACK_DOOR_H

\* A red shape whose identifier starts with d was built as a window with the
\* window defaults.
C20_Witness ==
    /\ pc = "done"
    /\ \E k \in 1..Len(hosted) :
          /\ HasHost(hosted[k])
          /\ hosted[k].is_win
          /\ KindLetterIsDoor(hosted[k].eid)
          /\ ifc.products[hosted[k].el].cls = "IfcWindow"
          /\ hosted[k].type_token = DEFAULT_WIN_TYPE
          /\ hosted[k].spec_width = Some(18)

-----------------------------------------------------------------------------
(* C22 *)

\* The loop is about to run an iteration
AtIteration == ppc = "run" /\ flat.i < Len(flat.toks)
NextToken   == flat.toks[flat.i + 1]
\* The iteration reads a close command while a subpath is pending
AtClose ==
    /\ AtIteration
    /\ flat.cur # <<>>
    /\ \/ NextToken.k = "cmd" /\ NextToken.c \in {"Z", "z"}
       \/ NextToken.k = "num" /\ flat.cmd \in {"Z", "z"}
StartPoint == Pt(RatInt(flat.sx), RatInt(flat.sy))

\* C22 (as stated): a close command with a pending subpath emits it with the
\* start point appended, empties the pending subpath and sets the current point
\* back to the start point, and the polyline it emits is closed: its first and
\* its last vertex are the subpath's start point.
C22_ClosedPolylineStartsAndEndsAtStart ==
    AtClose =>
        LET g == path_iteration(flat).f
            p == g.polys[Len(g.polys)]
        IN  /\ g.polys = Append(flat.polys, Append(flat.cur, StartPoint))
            /\ g.cur = <<>>
            /\ g.x = flat.sx /\ g.y = flat.sy
            /\ p[Len(p)] = StartPoint
            /\ p[1] = StartPoint

\* What the close command does do: all of the above but the first vertex,
\* which is whatever the pending subpath began with.
C22_CloseAppendsStartAndResets ==
    AtClose =>
        LET g == path_iteration(flat).f
            p == g.polys[Len(g.polys)]
        IN  /\ g.polys = Append(flat.polys, Append(flat.cur, StartPoint))
            /\ g.cur = <<>>
            /\ g.x = flat.sx /\ g.y = flat.sy
            /\ p[Len(p)] = StartPoint
            /\ p[1] = flat.cur[1]

\* A subpath drawn after a close without a new move is about to be closed: it
\* does not begin at the start point.
C22_SubpathAfterCloseReached ==
    /\ AtClose
    /\ flat.polys # <<>>
    /\ flat.cur[1] # StartPoint

-----------------------------------------------------------------------------
(* C23 *)

\* The iteration applies a curve command to the numbers that follow
AtCurve ==
    /\ AtIteration
    /\ NextToken.k = "num"
    /\ flat.cmd \in {"C", "c", "Q", "q"}
    /\ path_iteration(flat).exit = "continue"
CurveArgs == [j \in 1..NumArgs(flat.cmd) |-> flat.toks[flat.i + j].n]
\* The control points and the end point: the numbers of an absolute command,
\* the current point plus the numbers of a relative one.
CurvePoints ==
    LET rel == flat.cmd \in {"c", "q"}
        n == NumArgs(flat.cmd) \div 2
    IN  <<<<flat.x, flat.y>>>> \o
        [j \in 1..n |-> <<(IF rel THEN flat.x ELSE 0) + CurveArgs[2 * j - 1],
                          (IF rel THEN flat.y ELSE 0) + CurveArgs[2 * j]>>]
\* The point of the curve at t = k/CURVE_SEGMENTS by repeated interpolation
\* between neighbouring points (de Casteljau), coordinate a
RECURSIVE Interpolated(_, _, _)
Interpolated(ps, k, a) ==
    IF Len(ps) = 1 THEN ps[1][a]
    ELSE Interpolated([j \in 1..(Len(ps) - 1) |->
                          [b \in {a} |-> (CURVE_SEGMENTS - k) * ps[j][b] + k * ps[j + 1][b]]],
                      k, a)
RECURSIVE Power(_, _)
Power(b, e) == IF e = 0 THEN 1 ELSE b * Power(b, e - 1)
CurveAt(ps, k) ==
    Pt(Rat(Interpolated(ps, k, 1), Power(CURVE_SEGMENTS, Len(ps) - 1)),
       Rat(Interpolated(ps, k, 2), Power(CURVE_SEGMENTS, Len(ps) - 1)))

\* C23: a cubic or quadratic curve command appends exactly CURVE_SEGMENTS
\* vertices, the k-th the point of the curve at t = k/CURVE_SEGMENTS; the last
\* of them is the end point itself and the current point becomes the end
\* point; a relative command counts its points from the current point held
\* before the command.
C23_CurveAppendsSegmentsEndingAtEndpoint ==
    AtCurve =>
        LET g == path_iteration(flat).f
            ps == CurvePoints
            e == ps[Len(ps)]
            n == Len(flat.cur)
        IN  /\ Len(g.cur) = n + CURVE_SEGMENTS
            /\ \A k \in 1..n : g.cur[k] = flat.cur[k]
            /\ \A k \in 1..CURVE_SEGMENTS : g.cur[n + k] = CurveAt(ps, k)
            /\ g.cur[n + CURVE_SEGMENTS] = Pt(RatInt(e[1]), RatInt(e[2]))
            /\ g.x = e[1] /\ g.y = e[2]
            /\ g.polys = flat.polys
            /\ g.i = flat.i + NumArgs(flat.cmd)

\* A relative cubic was flattened from a current point other than the origin.
C23_Witness ==
    /\ ppc = "run"
    /\ flat.cmd = "c"
    /\ flat.i = Len(flat.toks)
    /\ Len(flat.cur) = CURVE_SEGMENTS + 1
    /\ flat.cur[1] = Pt(RatInt(1), RatInt(0))
    /\ flat.cur[CURVE_SEGMENTS + 1] = Pt(RatInt(5), RatInt(0))
    /\ flat.cur[CURVE_SEGMENTS \div 2 + 1] = Pt(RatInt(3), RatInt(3))
    /\ flat.x = 5 /\ flat.y = 0

-----------------------------------------------------------------------------
(* C27 *)

\* C27 (as stated): every iteration of the loop reads at least one token or
\* leaves the loop, so that the call ends after at most len(toks) iterations.
C27_IterationConsumesOrLeaves ==
    AtIteration =>
        \/ path_iteration(flat).f.i > flat.i
        \/ path_iteration(flat).exit # "continue"

\* Under SpecPathFair: every call that entered its loop leaves it, by the end
\* of the tokens, a break or an exception.
C27_LoopTerminates == (ppc = "run") ~> (ppc # "run")

\* The iterations that read nothing and stay in the loop are those that find a
\* number while the command is a close.
C27_StuckOnlyOnNumberAfterClose ==
    AtIteration =>
        \/ path_iteration(flat).f.i > flat.i
        \/ path_iteration(flat).exit # "continue"
        \/ NextToken.k = "num" /\ flat.cmd \in {"Z", "z"}

-----------------------------------------------------------------------------
(* C24 *)

\* The storeys that contain element n of the merged file
StoreysOf(n) == { i \in 1..Len(merged.storeys) : <<n, i>> \in merged.contained }
\* The floor (counted from 1) whose file element n was copied from
FloorOf(n) == merged.elements[n].from[1] + 1
MergeRuns == Len(floors) > 1 /\ mpc # "start"

\* C24: in a merge of more than one floor the floors are taken in input
\* order.  Storey i is named Floor_i (counted from 0) and has the elevation of
\* floor i; while the elements of a floor are copied, its storey is the last
\* one, and a further storey exists only after every earlier floor has been
\* copied and reported; the elements lie in the order of their floors, and a
\* copied element is contained in the storey of its floor and in no other.
C24_FloorsInInputOrder ==
    MergeRuns =>
        /\ Len(report) = fi
        /\ \A i \in 1..Len(report) : report[i].floor = i - 1
        /\ Len(merged.storeys) \in {fi, fi + 1}
        /\ mpc = "copy" => Len(merged.storeys) = fi + 1
        /\ mpc \in {"floor", "returned_merged"} => Len(merged.storeys) = fi
        /\ \A i \in 1..Len(merged.storeys) :
              /\ merged.storeys[i].Name = <<"Floor_", i - 1>>
              /\ merged.storeys[i].Elevation = floors[i].elevation
        /\ \A n \in 1..Len(merged.elements) :
              /\ FloorOf(n) <= Len(merged.storeys)
              /\ FloorOf(n) <= fi + 1
              /\ n > 1 => FloorOf(n - 1) <= FloorOf(n)
              /\ StoreysOf(n) \subseteq {FloorOf(n)}

\* Two floors at different elevations were merged, each with elements of its
\* own.
C24_Witness ==
    /\ mpc = "returned_merged"
    /\ Len(floors) = 2
    /\ floors[2].elevation # floors[1].elevation
    /\ \E n \in 1..Len(merged.elements) : StoreysOf(n) = {1}
    /\ \E n \in 1..Len(merged.elements) : StoreysOf(n) = {2}
    /\ merged.storeys[2].Elevation = floors[2].elevation
    /\ Len(report) = 2

-----------------------------------------------------------------------------
(* C28 *)

\* C28 (as stated): in a merge of more than one floor every element of the
\* merged file is contained in exactly one storey, and storey i holds as many
\* elements as the report says were copied for floor i.
C28_EveryElementInExactlyOneStorey ==
    MergeRuns =>
        /\ \A n \in 1..Len(merged.elements) : Cardinality(StoreysOf(n)) = 1
        /\ \A i \in 1..Len(report) :
              report[i].copied = Cardinality({ n \in 1..Len(merged.elements) : i \in StoreysOf(n) })

\* What holds: no element is in two storeys, the reported count is the count
\* of the storey, and the elements in no storey are as many as the
\* assign_container calls that raised.
C28_AtMostOneStoreyAndCountsAgree ==
    MergeRuns =>
        /\ \A n \in 1..Len(merged.elements) : Cardinality(StoreysOf(n)) <= 1
        /\ \A i \in 1..Len(report) :
              report[i].copied = Cardinality({ n \in 1..Len(merged.elements) : i \in StoreysOf(n) })
        /\ Cardinality({ n \in 1..Len(merged.elements) : StoreysOf(n) = {} }) <= failures

\* The merge returned a file with an element that is in no storey.
C28_OrphanReturned ==
    /\ mpc = "returned_merged"
    /\ \E n \in 1..Len(merged.elements) : StoreysOf(n) = {}

-----------------------------------------------------------------------------
(* C25 *)

\* Every wall and every hosted opening of the drawing has been gone through
AllBuilt ==
    /\ Len(wall_recs) = Len(walls)
    /\ Len(hosted) = Len(wins) + Len(doors)
\* Whether s is the beginning of t
IsPrefix(s, t) == Len(s) <= Len(t) /\ s = SubSeq(t, 1, Len(s))

\* C25: OUT_IFC is written only once every wall and hosted opening is built,
\* and what is written is the store as it is from then on; the reload, the
\* drawing and sheet functions and the export are called only after the
\* write, the reload first and the others in the order of main, and in a run
\* that did not write none of them is called.
C25_WriteBeforeEveryOperator ==
    /\ session.written =>
          /\ AllBuilt
          /\ session.file = Some(ifc)
          /\ pc \in {"export", "done", "raised"}
    /\ ~session.written => session.ops = <<>> /\ session.file = None /\ pc # "done"
    /\ IsPrefix(session.ops, EPILOGUE)
    /\ session.ops # <<>> => session.ops[1] = "reload_ifc_in_bonsai"
    /\ pc = "done" => session.ops = EPILOGUE

\* A run built a window into a wall, wrote the store and went through the
\* export.
C25_Witness ==
    /\ pc = "done"
    /\ session.written
    /\ \E k \in 1..Len(hosted) : HasHost(hosted[k])
    /\ Len(session.ops) = 7
    /\ session.ops[5] = "bonsai_export_discover_and_run"

\* A run built its walls and openings, the write raised, and nothing was
\* called after it.
C25_WriteFailedReached ==
    /\ pc = "raised"
    /\ session.purged
    /\ wall_recs # <<>>
    /\ ~session.written
    /\ session.ops = <<>>

-----------------------------------------------------------------------------
(* C26 *)

\* Main is between the switch of the preference and its end
Running == pc \in {"setup", "clean", "parse", "walls", "wins", "doors", "write", "export"}

\* C26: from the switch on, through the set-up, the clean-up, the build, the
\* write and every function of the epilogue, the undo preference is off;
\* nothing touches the store or calls a function of the epilogue before the
\* switch; and when main has ended, by returning or by an exception, the
\* preference is what it was before the run.
C26_UndoOffDuringRunAndRestored ==
    /\ Running => session.use_global_undo = FALSE
    /\ pc = "start" =>
          /\ session.use_global_undo = world.old_undo
          /\ ifc = world.store /\ session.ops = <<>> /\ ~session.purged
    /\ pc \in {"done", "raised"} => session.use_global_undo = world.old_undo

\* With undo on before the run: a run that was stopped by an exception in the
\* epilogue, after the write, has undo on again.
C26_Witness ==
    /\ pc = "raised"
    /\ world.old_undo
    /\ session.written
    /\ session.ops # <<>>
    /\ session.use_global_undo

\* With undo on before the run, the run is building with undo off.
C26_BuildingWithUndoOff ==
    /\ pc = "wins"
    /\ world.old_undo
    /\ ~session.use_global_undo
    /\ wall_recs # <<>>

-----------------------------------------------------------------------------
(* C21 *)

\* The views, of the five, in which the caller of job j put an 'on' shape
OnViews(j) ==
    IF jobs[j].via = "http"
    THEN { v \in ViewSet : \E k \in 1..Len(jobs[j].payload) :
              /\ view_lower(jobs[j].payload[k].viewId) = v
              /\ jobs[j].payload[k].shapeType = "on" }
    ELSE { v \in ViewSet \cap DOMAIN jobs[j].payload :
              \E k \in 1..Len(jobs[j].payload[v]) :
                  jobs[j].payload[v][k].shapeType = Some("on") }
\* The views, of the five, in which the caller put a shape of any type
AnyViews(j) ==
    IF jobs[j].via = "http"
    THEN { v \in ViewSet : \E k \in 1..Len(jobs[j].payload) :
              view_lower(jobs[j].payload[k].viewId) = v }
    ELSE { v \in ViewSet \cap DOMAIN jobs[j].payload : jobs[j].payload[v] # <<>> }
\* The entry point called the builder for job j
PassedPreCheck(j) == jobs[j].via = "http" /\ ~IsNone(jobs[j].shapes_data)

\* C21: Blender is launched only for a call with 'on' shapes in at least two
\* of the five views; a call that ended without a launch returned a failure;
\* the entry point calls the builder only with shapes on at least two views,
\* and what it lets through with 'on' shapes on fewer than two is never
\* launched.
C21_LaunchOnlyWithOnShapesInTwoViews ==
    \A j \in Jobs :
        /\ jobs[j].launched => Cardinality(OnViews(j)) >= 2
        /\ jobs[j].pc \in {"launch", "blender", "collect"} => Cardinality(OnViews(j)) >= 2
        /\ (jobs[j].pc = "done" /\ ~jobs[j].launched) =>
              /\ ~Val(jobs[j].result).success
              /\ IsNone(jobs[j].input)
        /\ PassedPreCheck(j) => Cardinality(AnyViews(j)) >= 2
        /\ (jobs[j].via = "http" /\ Cardinality(AnyViews(j)) < 2) => IsNone(jobs[j].dir)

\* A request with an 'on' shape on one view and an 'off' shape on another went
\* through the entry point's check and the builder refused it without a
\* launch, while another call was launched.
C21_Witness ==
    \E j \in Jobs : \E k \in Jobs :
        /\ PassedPreCheck(j)
        /\ Cardinality(OnViews(j)) = 1
        /\ jobs[j].pc = "done"
        /\ ~jobs[j].launched
        /\ Val(jobs[j].result) = Failure("Need 'on' shapes in at least 2 views")
        /\ jobs[k].launched
        /\ Cardinality(OnViews(k)) >= 2

-----------------------------------------------------------------------------
(* C29 *)

\* C29 (as stated): no two calls work in the same project directory, and a
\* call that returns an output returns the one its own Blender made from its
\* own SVGs.
C29_OwnProjectDirectory ==
    \A j \in Jobs :
        /\ \A k \in Jobs \ {j} :
              (~IsNone(jobs[j].dir) /\ ~IsNone(jobs[k].dir)) => jobs[j].dir # jobs[k].dir
        /\ (~IsNone(jobs[j].result) /\ Val(jobs[j].result).success) =>
              Val(jobs[j].result).glb_data = Some([by |-> j, from |-> Some(j)])

\* What holds: the calls share a directory only when they made it in the same
\* second, and a call alone in its directory returns its own output.
C29_SharedOnlyWithinOneSecond ==
    \A j \in Jobs :
        (\A k \in Jobs \ {j} : IsNone(jobs[k].dir) \/ jobs[k].dir # jobs[j].dir) =>
            /\ \A t \in 0..MaxTicks :
                  (disk[t].svgs = Some(j) \/ disk[t].log = Some(j)) => jobs[j].dir = Some(t)
            /\ ~IsNone(jobs[j].input) => jobs[j].input = Some(j)
            /\ (~IsNone(jobs[j].result) /\ Val(jobs[j].result).success) =>
                  Val(jobs[j].result).glb_data = Some([by |-> j, from |-> Some(j)])

\* A call returned, as its own, the output another call's Blender wrote.
C29_ForeignOutputReturned ==
    \E j \in Jobs :
        /\ ~IsNone(jobs[j].result)
        /\ Val(jobs[j].result).success
        /\ Val(Val(jobs[j].result).glb_data).by # j

-----------------------------------------------------------------------------
(* C30 *)

\* What an entity of the file gives, by its kind: a LINE one segment, an
\* LWPOLYLINE of n points n-1 segments and one more when closed with n > 2, a
\* CIRCLE 32 segments, an ARC one per 11.25 degrees of sweep and at least 8.
EntityKind(e) == e[1].value
EntityNumber(e, code) ==
    LET at == { k \in 1..Len(e) : e[k].code = code } IN
    IF at = {} THEN 0 ELSE e[CHOOSE k \in at : TRUE].float
EntityPoints(e) ==
    LET xs == SelectSeq(e, LAMBDA p : p.code = 10)
        ys == SelectSeq(e, LAMBDA p : p.code = 20)
    IN  [k \in 1..Len(xs) |-> <<xs[k].float, ys[k].float>>]
SegmentCount(e) ==
    CASE EntityKind(e) = "LINE" -> 1
      [] EntityKind(e) = "LWPOLYLINE" ->
            Len(EntityPoints(e)) - 1
            + (IF EntityNumber(e, 70) % 2 = 1 /\ Len(EntityPoints(e)) > 2 THEN 1 ELSE 0)
      [] EntityKind(e) = "CIRCLE" -> 32
      [] EntityKind(e) = "ARC" ->
            LET sweep == (EntityNumber(e, 51) - EntityNumber(e, 50)) % 360
            IN  Max2(8, (4 * sweep) \div 45)
\* The segments of `lines` of the kind k
OfKind(lines, k) == SelectSeq(lines, LAMBDA g : g.kind = k)
\* The entities of the file of the kind k
EntitiesOfKind(es, k) == SelectSeq(es, LAMBDA e : EntityKind(e) = k)
RECURSIVE CountAll(_)
CountAll(es) == IF es = <<>> THEN 0 ELSE SegmentCount(Head(es)) + CountAll(Tail(es))
RawKinds == {"LINE", "LWPOLYLINE", "CIRCLE", "ARC"}
RawDone == ~IsNone(raw_out)

\* C30 (as stated): every entity of the ENTITIES section, the last one
\* included, gives its segments: of every kind `lines` holds as many segments
\* as the entities of that kind give.
C30_EveryEntityConverted ==
    RawDone =>
        \A k \in RawKinds :
            Len(OfKind(Val(raw_out), k)) = CountAll(EntitiesOfKind(raw_in.es, k))

\* What holds: every entity but a CIRCLE or ARC in the last place gives its
\* segments, and such a last one gives none.
C30_AllButALastCurveConverted ==
    RawDone =>
        LET n == Len(raw_in.es)
            lost == n > 0 /\ EntityKind(raw_in.es[n]) \in {"CIRCLE", "ARC"}
            kept == IF lost THEN SubSeq(raw_in.es, 1, n - 1) ELSE raw_in.es
        IN  \A k \in RawKinds :
                Len(OfKind(Val(raw_out), k)) = CountAll(EntitiesOfKind(kept, k))

\* A file that ends as it should, ENDSEC and EOF, with a CIRCLE as its last
\* entity after a LINE: the line's segment is all that came out.
C30_LastCircleLost ==
    /\ RawDone
    /\ raw_in.ended
    /\ Len(raw_in.es) = 2
    /\ EntityKind(raw_in.es[1]) = "LINE"
    /\ EntityKind(raw_in.es[2]) = "CIRCLE"
    /\ Len(Val(raw_out)) = 1

=============================================================================
